---- MODULE Spec2Model ----
(***************************************************************************)
(* Simulation core of the DOOM three.js port: fixed-point arithmetic,      *)
(* sector machines (doors, platforms), the line trigger system, the        *)
(* thinker list and the per-tick orchestration.                            *)
(*                                                                         *)
(* Representation of numbers.  A JavaScript number that holds a map height *)
(* (sector.floorheight, sector.ceilingheight) is always a multiple of      *)
(* 1/65536 in this program, so it is stored here as that multiple          *)
(* ("scaled"): the height 128 is the integer 128 * FRACUNIT.  Fixed (16.16)*)
(* values are stored as their raw 32-bit integer.                          *)
(***************************************************************************)
EXTENDS Integers, Sequences, FiniteSets, TLC

\* ------------------------------------------------------------------------
\* core/fixed.ts
\* ------------------------------------------------------------------------
FRACBITS == 16
FRACUNIT == 65536

INT32_MAX == 2147483647
INT32_MIN == -2147483647 - 1

Abs(x) == IF x < 0 THEN 0 - x ELSE x

\* ToInt32 of a scaled float: the fraction is dropped, rounding toward zero.
TruncToInt(h) == IF h < 0 THEN 0 - ((0 - h) \div FRACUNIT) ELSE h \div FRACUNIT

\* n << 16 on a 32-bit integer: the low 16 bits of n, shifted, reinterpreted
\* as signed.
Shl16(n) ==
  LET lo == n % FRACUNIT
  IN  (IF lo >= 32768 THEN lo - FRACUNIT ELSE lo) * FRACUNIT

\* IntToFixed(x) = (x << FRACBITS) | 0, applied to a scaled float x
IntToFixed(h) == Shl16(TruncToInt(h))

\* FixedToFloat(x) = x / FRACUNIT: the float x/65536, whose scaled
\* representation is the integer x.
FixedToFloat(x) == x

\* A whole number of map units as a scaled float
Units(n) == n * FRACUNIT

\* ---- 32-bit values held as two 16-bit halves, so that no intermediate
\* ---- result exceeds 32 bits
Half == FRACUNIT \div 2

\* ToInt32 of the unsigned value hi * 65536 + lo
FromHalves(hi, lo) == (IF hi >= Half THEN hi - FRACUNIT ELSE hi) * FRACUNIT + lo

\* |a| as halves (|INT32_MIN| = 2^31 has hi = 32768)
AbsHalves(a) ==
  IF a = INT32_MIN THEN [hi |-> Half, lo |-> 0]
  ELSE [hi |-> Abs(a) \div FRACUNIT, lo |-> Abs(a) % FRACUNIT]

\* bit i (0 = most significant) of the 48-bit number |a| * 65536
DividendBit(ah, i) ==
  IF i < 16 THEN (ah.hi \div (2 ^ (15 - i))) % 2
  ELSE IF i < 32 THEN (ah.lo \div (2 ^ (31 - i))) % 2
  ELSE 0

\* floor(|a| * 65536 / d) modulo 2^32 for 0 < d < 2^31, by binary long
\* division; st = [r, hi, lo] is the remainder and the quotient so far
RECURSIVE LongDiv(_, _, _, _)
LongDiv(ah, d, i, st) ==
  IF i = 48 \/ st.r < 0 THEN st
  ELSE
    LET bit  == DividendBit(ah, i)
        ge   == st.r >= d - st.r - bit          \* 2r + bit >= d
        r2   == IF ge THEN st.r - (d - st.r - bit) ELSE 2 * st.r + bit
        qbit == IF ge THEN 1 ELSE 0
        lo2  == 2 * st.lo + qbit
        hi2  == 2 * st.hi + (lo2 \div FRACUNIT)
    IN  LongDiv(ah, d, i + 1,
                [r |-> r2, hi |-> hi2 % FRACUNIT, lo |-> lo2 % FRACUNIT])

\* the halves left as they are
KeepHalves(q) == q

\* the two's complement of hi * 65536 + lo, as halves
NegHalves(q) ==
  IF q.lo = 0 THEN [hi |-> (FRACUNIT - q.hi) % FRACUNIT, lo |-> 0]
  ELSE [hi |-> FRACUNIT - 1 - q.hi, lo |-> FRACUNIT - q.lo]

\* ((a * FRACUNIT) / b) | 0 for b # 0: the quotient rounded toward zero,
\* then ToInt32
ScaledQuotient(a, b) ==
  LET ah  == AbsHalves(a)
      mag == IF b = INT32_MIN
               THEN [hi |-> 0, lo |-> (ah.hi * 2) + (ah.lo \div Half)]  \* |a| >> 15
               ELSE LET st == LongDiv(ah, Abs(b), 0, [r |-> 0, hi |-> 0, lo |-> 0])
                    IN  [hi |-> st.hi, lo |-> st.lo]
      q   == IF (a < 0) # (b < 0) THEN NegHalves(mag) ELSE mag
  IN  FromHalves(q.hi, q.lo)

Returned(v) == [kind |-> "value", value |-> v]
Thrown == [kind |-> "throw", value |-> 0]

\* FixedDiv2(a, b)
FixedDiv2(a, b) ==
  IF b = 0 THEN Thrown ELSE Returned(ScaledQuotient(a, b))

\* Math.abs(a) >> 14: ToInt32(|a|) shifted right; |INT32_MIN| = 2^31 becomes
\* INT32_MIN before the shift
AbsShift14(a) == IF a = INT32_MIN THEN 0 - 131072 ELSE Abs(a) \div 16384

\* FixedDiv(a, b)
FixedDiv(a, b) ==
  LET absA == AbsShift14(a)
      overflow == IF b = INT32_MIN THEN FALSE   \* absB = 2^31 exceeds every absA
                  ELSE absA >= Abs(b)
  IN  IF overflow
        THEN Returned(IF (a < 0) # (b < 0) THEN INT32_MIN ELSE INT32_MAX)
        ELSE FixedDiv2(a, b)

\* a shift by one bit less than FRACBITS
FixedToIntShift15(x) == x \div Half

\* FixedToInt(x) = x >> FRACBITS: the arithmetic shift rounds toward minus
\* infinity
FixedToInt(x) == x \div FRACUNIT

\* IntToFixed(n) for a whole number n given as itself (the scaled
\* representation of a number beyond 32767 does not fit in 32 bits)
IntToFixedOfInt(n) == Shl16(n)

\* ---- products of two 32-bit values, held as limbs of 8 bits
\* |a| as four limbs, least significant first (|INT32_MIN| = 2^31)
AbsLimbs(a) ==
  IF a = INT32_MIN THEN << 0, 0, 0, 128 >>
  ELSE LET m == Abs(a)
       IN  << m % 256, (m \div 256) % 256, (m \div FRACUNIT) % 256,
              m \div (256 * FRACUNIT) >>

\* the sum of the limb products of weight 256^k
Column(al, bl, k) ==
  LET term(i) == IF k - i \in 0 .. 3 THEN al[i + 1] * bl[k - i + 1] ELSE 0
  IN  term(0) + term(1) + term(2) + term(3)

\* the limbs k .. 7 of the product, `carry` coming from the limbs below
RECURSIVE MulFrom(_, _, _, _)
MulFrom(al, bl, k, carry) ==
  IF k = 8 THEN << >>
  ELSE LET c == Column(al, bl, k) + carry
       IN  << c % 256 >> \o MulFrom(al, bl, k + 1, c \div 256)

\* the number of bits of the number with limbs p (0 for zero)
RECURSIVE BitsOfLimb(_)
BitsOfLimb(n) == IF n = 0 THEN 0 ELSE 1 + BitsOfLimb(n \div 2)

BitLength(p) ==
  LET used == { k \in 1 .. Len(p) : p[k] # 0 }
  IN  IF used = {} THEN 0
      ELSE LET top == CHOOSE k \in used : \A j \in used : j <= k
           IN  8 * (top - 1) + BitsOfLimb(p[top])

\* a * b as a double: the product keeps 53 significant bits, the bits below
\* rounded to nearest, ties to even.  At most 10 bits are dropped, all in the
\* low 16 bits of the product; the result is 1 if the rounding carries into
\* bit 16 and 0 otherwise.
RoundingCarry(p) ==
  LET dropped == IF BitLength(p) > 53 THEN BitLength(p) - 53 ELSE 0
      low16 == p[1] + 256 * p[2]
      rest == low16 % (2 ^ dropped)
      keptOdd == (low16 \div (2 ^ dropped)) % 2 = 1
      up == /\ dropped > 0
            /\ \/ 2 * rest > 2 ^ dropped
               \/ 2 * rest = 2 ^ dropped /\ keptOdd
  IN  IF up /\ low16 - rest + 2 ^ dropped = FRACUNIT THEN 1 ELSE 0

\* FixedMul(a, b) = ((a * b) / FRACUNIT) | 0: the double product, divided
\* (exactly) by 65536, its fraction dropped, and ToInt32 of that: the low 32
\* bits, reinterpreted as signed
FixedMul(a, b) ==
  LET p == MulFrom(AbsLimbs(a), AbsLimbs(b), 0, 0)
      lo0 == p[3] + 256 * p[4] + RoundingCarry(p)
      hi0 == p[5] + 256 * p[6] + lo0 \div FRACUNIT
      mag == [hi |-> hi0 % FRACUNIT, lo |-> lo0 % FRACUNIT]
      q == IF (a < 0) # (b < 0) THEN NegHalves(mag) ELSE mag
  IN  FromHalves(q.hi, q.lo)

\* The operands the arithmetic is exercised on
FixedOperandsA ==
  { INT32_MIN, -11927552, -196608, -65536, -32768, -16384, -3, -1, 0, 1, 3,
    16383, 16384, 32767, 32768, 65536, 98304, 11927552, INT32_MAX }
FixedOperandsB ==
  { INT32_MIN, -65536, -4, -1, 0, 1, 2, 4, 65536, 11927552, INT32_MAX }

\* ------------------------------------------------------------------------
\* Bounds of the model
\* ------------------------------------------------------------------------
\* The tick counters kept for the claims stop counting here
AgeCap == 66
\* gameTick is called at most this many times
MaxGameTicks == 2
\* Where both managers are driven call by call, at most this many update
\* calls are made
MaxUpdates == 3
\* At most this many thinkers are ever created
MaxThinkers == 3
\* thinkerCount is not driven below minus this many
MaxOverRemove == 1
\* A thinker's behaviour makes at most this many manager calls
MaxThinkOps == 2

Min(a, b) == IF a < b THEN a ELSE b

VARIABLES
  sectors,         \* mapData.sectors: index -> [floorheight, ceilingheight (scaled), tag]
  doors,           \* DoorManager.doors: Map sectorIndex -> DoorThinker
  platforms,       \* PlatformManager.platforms: Map sectorIndex -> PlatformThinker
  activatedLines,  \* TriggerSystem.activatedLines: Set of line indices
  player,          \* playerMobj: its position in whole map units, or absent
  call,            \* the last operation called and what it returned
  doorLog,         \* per sector: the last successful activateDoor and the
                   \* number of updateDoors calls since
  platLog,         \* the same for activatePlatform / updatePlatforms
  tickCount,       \* Game.tickCount
  gpc,             \* the statement gameTick is at ("idle" between ticks)
  cmd,             \* the TicCmd sampled in this tick
  oldPos,          \* oldX, oldY saved at the start of this tick
  steps,           \* the steps gameTick has run in this tick, in order
  updates,         \* how many updateDoors / updatePlatforms calls were made
  notes,           \* per sector, for the last updateDoors and the last
                   \* updatePlatforms call: the machine's state and the sector's
                   \* height before it, and the heights passed to the callback
  tm,              \* ThinkerManager: head, tail, thinkerCount and the Thinker
                   \* objects ever created (handle h is nodes[h]; 0 is undefined)
  live,            \* the handles added and not removed since
  run,             \* the runThinkers pass under way or last finished
  misused,         \* removeThinker has been called on a thinker that was
                   \* not registered (already removed or cleared)
  fx,              \* fixed-point arithmetic: the operands, the function called
                   \* and what it returned or threw
  mobj,            \* the player's Mobj: the fields the physics reads and writes
  mapData,         \* the MapData the physics moves in
  physLog,         \* the last physics function applied, and the Mobj before it
  ticker,          \* GameTicker: its fields and the position of tick()
  test,            \* the tick function's own state (tickCount of test-ticker.ts)
  tickLog,         \* what the tick function was called with, and what the
                   \* last frame callback owed
  bsp,             \* BSPRenderer: the node array, the query point, the call
                   \* stack of traverseNode and visibleSubsectors
  lookup           \* a map's subsectors, segs, linedefs and sidedefs, and what
                   \* getSubsectorSector returned or threw on them

machVars == << sectors, doors, platforms, activatedLines, player, call,
               doorLog, platLog >>
gameVars == << tickCount, gpc, cmd, oldPos, steps >>
histVars == << updates, notes >>
thinkVars == << tm, live, run, misused >>
physVars == << mobj, mapData, physLog >>
tickerVars == << ticker, test, tickLog >>
bspVars == << bsp, lookup >>
apartVars == << fx, physVars, tickerVars, bspVars >>
worldVars == << machVars, gameVars, histVars, apartVars >>

\* ------------------------------------------------------------------------
\* sectors/DoorSystem.ts
\* ------------------------------------------------------------------------
DoorTypes == {"NORMAL", "OPEN_STAY", "CLOSE", "RAISE", "BLAZING"}
DoorStates == {"CLOSED", "OPENING", "OPEN", "WAITING", "CLOSING"}

DoorWaitTicks == 150
DoorOpenUnits == 128

DoorSpeed(type) ==
  IF type = "BLAZING" THEN 8 ELSE IF type = "RAISE" THEN 4 ELSE 2

\* Map.delete / Map.set on a map held as a function
MapDelete(m, k) == [x \in (DOMAIN m) \ {k} |-> m[x]]
MapSet(m, k, v) == [x \in (DOMAIN m) \cup {k} |-> IF x = k THEN v ELSE m[x]]

\* activateDoor without the doors.has(sectorIndex) test: an active door is
\* replaced by a fresh one
activateDoorNoGuard(ds, secs, sectorIndex, type) ==
  IF sectorIndex \notin DOMAIN secs
    THEN [ok |-> FALSE, doors |-> ds]
  ELSE
    LET sector == secs[sectorIndex]
        door == [sectorIndex  |-> sectorIndex,
                 type         |-> type,
                 state        |-> "OPENING",
                 speed        |-> DoorSpeed(type),
                 topHeight    |-> IntToFixed(sector.floorheight + Units(DoorOpenUnits)),
                 bottomHeight |-> IntToFixed(sector.floorheight),
                 waitTimer    |-> 0]
    IN  [ok |-> TRUE, doors |-> MapSet(ds, sectorIndex, door)]

\* activateDoor(sectorIndex, type): the new door map and the return value
activateDoor(ds, secs, sectorIndex, type) ==
  IF sectorIndex \in DOMAIN ds
    THEN [ok |-> FALSE, doors |-> ds]
  ELSE IF sectorIndex \notin DOMAIN secs
    THEN [ok |-> FALSE, doors |-> ds]
  ELSE
    LET sector == secs[sectorIndex]
        door == [sectorIndex  |-> sectorIndex,
                 type         |-> type,
                 state        |-> "OPENING",
                 speed        |-> DoorSpeed(type),
                 topHeight    |-> IntToFixed(sector.floorheight + Units(DoorOpenUnits)),
                 bottomHeight |-> IntToFixed(sector.floorheight),
                 waitTimer    |-> 0]
    IN  [ok |-> TRUE, doors |-> MapSet(ds, sectorIndex, door)]

\* the WAITING case of updateDoor with the timer compared with < 0
tickWaitStrict(door) ==
  LET t == door.waitTimer - 1 IN
  [door EXCEPT !.waitTimer = t,
               !.state = IF t < 0 THEN "CLOSING" ELSE "WAITING"]

\* the WAITING case of updateDoor: the timer is decremented, and the door
\* is CLOSING once it is not positive
tickWait(door) ==
  LET t == door.waitTimer - 1 IN
  [door EXCEPT !.waitTimer = t,
               !.state = IF t <= 0 THEN "CLOSING" ELSE "WAITING"]

\* updateDoor(door): the door afterwards, the sector's ceiling afterwards,
\* whether the door deleted itself, and the heights passed to onCeilingChange
updateDoor(door, sector) ==
  LET currentHeight == IntToFixed(sector.ceilingheight)
      same == [door |-> door, ceilingheight |-> sector.ceilingheight,
               deleted |-> FALSE, notified |-> << >>]
  IN
  CASE door.state = "OPENING" ->
         LET newOpenHeight == currentHeight + door.speed IN
         IF newOpenHeight >= door.topHeight
           THEN LET newHeight == FixedToFloat(door.topHeight) IN
                IF door.type = "OPEN_STAY"
                  THEN [door |-> [door EXCEPT !.state = "OPEN"],
                        ceilingheight |-> newHeight,
                        deleted |-> TRUE, notified |-> << newHeight >>]
                  ELSE [door |-> [door EXCEPT !.state = "WAITING",
                                              !.waitTimer = DoorWaitTicks],
                        ceilingheight |-> newHeight,
                        deleted |-> FALSE, notified |-> << newHeight >>]
           ELSE LET newHeight == FixedToFloat(newOpenHeight) IN
                [door |-> door, ceilingheight |-> newHeight,
                 deleted |-> FALSE, notified |-> << newHeight >>]
    [] door.state = "WAITING" -> [same EXCEPT !.door = tickWait(door)]
    [] door.state = "CLOSING" ->
         LET newCloseHeight == currentHeight - door.speed IN
         IF newCloseHeight <= door.bottomHeight
           THEN LET newHeight == FixedToFloat(door.bottomHeight) IN
                [door |-> [door EXCEPT !.state = "CLOSED"],
                 ceilingheight |-> newHeight,
                 deleted |-> TRUE, notified |-> << newHeight >>]
           ELSE LET newHeight == FixedToFloat(newCloseHeight) IN
                [door |-> door, ceilingheight |-> newHeight,
                 deleted |-> FALSE, notified |-> << newHeight >>]
    [] OTHER -> same

\* updateDoors that drops no door from the map
updateDoorsKeepAll(ds, secs) ==
  LET upd(s) == updateDoor(ds[s], secs[s])
  IN  [doors    |-> [s \in DOMAIN ds |-> upd(s).door],
       sectors  |-> [s \in DOMAIN secs |->
                       IF s \in DOMAIN ds
                         THEN [secs[s] EXCEPT !.ceilingheight = upd(s).ceilingheight]
                         ELSE secs[s]],
       notified |-> [s \in DOMAIN ds |-> upd(s).notified]]

\* updateDoors whose callback is passed the change of height, not the height
updateDoorsNotifyDelta(ds, secs) ==
  LET upd(s) == updateDoor(ds[s], secs[s])
      gone(s) == upd(s).deleted
                 \/ (upd(s).door.state = "CLOSED" /\ upd(s).door.type = "CLOSE")
  IN  [doors    |-> [s \in {x \in DOMAIN ds : ~gone(x)} |-> upd(s).door],
       sectors  |-> [s \in DOMAIN secs |->
                       IF s \in DOMAIN ds
                         THEN [secs[s] EXCEPT !.ceilingheight = upd(s).ceilingheight]
                         ELSE secs[s]],
       notified |-> [s \in DOMAIN ds |->
                       IF upd(s).notified = << >> THEN << >>
                       ELSE << upd(s).ceilingheight - secs[s].ceilingheight >>]]

\* updateDoors(): every active door is updated once; a door is dropped from
\* the map when updateDoor deleted it or it is a CLOSED door of type CLOSE
updateDoors(ds, secs) ==
  LET upd(s) == updateDoor(ds[s], secs[s])
      gone(s) == upd(s).deleted
                 \/ (upd(s).door.state = "CLOSED" /\ upd(s).door.type = "CLOSE")
  IN  [doors    |-> [s \in {x \in DOMAIN ds : ~gone(x)} |-> upd(s).door],
       sectors  |-> [s \in DOMAIN secs |->
                       IF s \in DOMAIN ds
                         THEN [secs[s] EXCEPT !.ceilingheight = upd(s).ceilingheight]
                         ELSE secs[s]],
       notified |-> [s \in DOMAIN ds |-> upd(s).notified]]

\* ------------------------------------------------------------------------
\* PlatformManager (src/test-ticker.ts)
\* ------------------------------------------------------------------------
PlatformTypes == {"PERPETUAL_RAISE", "RAISE_AND_WAIT", "RAISE_TO_NEXT", "LOWER_AND_WAIT"}
PlatformStates == {"UP", "DOWN", "WAITING", "IN_STASIS"}

PlatWaitTime == 105
PlatRiseUnits == 64
PlatDefaultSpeed == 1

\* activatePlatform(sectorIndex, type, speed): the new platform map and the
\* return value
activatePlatform(ps, secs, sectorIndex, type, speed) ==
  IF sectorIndex \in DOMAIN ps
    THEN [ok |-> FALSE, platforms |-> ps]
  ELSE IF sectorIndex \notin DOMAIN secs
    THEN [ok |-> FALSE, platforms |-> ps]
  ELSE
    LET sector == secs[sectorIndex]
        currentHeight == IntToFixed(sector.floorheight)
        platform == [sectorIndex |-> sectorIndex,
                     type        |-> type,
                     state       |-> "UP",
                     speed       |-> speed,
                     lowHeight   |-> currentHeight,
                     highHeight  |-> currentHeight + IntToFixed(Units(PlatRiseUnits)),
                     waitTimer   |-> 0,
                     waitTime    |-> PlatWaitTime]
    IN  [ok |-> TRUE, platforms |-> MapSet(ps, sectorIndex, platform)]

\* updatePlatform(platform): the platform afterwards, the sector's floor
\* afterwards, whether the platform deleted itself, and the heights passed
\* to onFloorChange
updatePlatform(platform, sector) ==
  LET currentHeight == IntToFixed(sector.floorheight)
      same == [platform |-> platform, floorheight |-> sector.floorheight,
               deleted |-> FALSE, notified |-> << >>]
  IN
  CASE platform.state = "UP" ->
         LET newUpHeight == currentHeight + platform.speed IN
         IF newUpHeight >= platform.highHeight
           THEN LET newHeight == FixedToFloat(platform.highHeight) IN
                [platform |-> [platform EXCEPT !.state = "WAITING",
                                               !.waitTimer = platform.waitTime],
                 floorheight |-> newHeight,
                 deleted |-> FALSE, notified |-> << newHeight >>]
           ELSE LET newHeight == FixedToFloat(newUpHeight) IN
                [platform |-> platform, floorheight |-> newHeight,
                 deleted |-> FALSE, notified |-> << newHeight >>]
    [] platform.state = "DOWN" ->
         LET newDownHeight == currentHeight - platform.speed IN
         IF newDownHeight <= platform.lowHeight
           THEN LET newHeight == FixedToFloat(platform.lowHeight) IN
                IF platform.type = "PERPETUAL_RAISE"
                  THEN [platform |-> [platform EXCEPT !.state = "WAITING",
                                                      !.waitTimer = platform.waitTime],
                        floorheight |-> newHeight,
                        deleted |-> FALSE, notified |-> << newHeight >>]
                  ELSE [platform |-> platform, floorheight |-> newHeight,
                        deleted |-> TRUE, notified |-> << newHeight >>]
           ELSE LET newHeight == FixedToFloat(newDownHeight) IN
                [platform |-> platform, floorheight |-> newHeight,
                 deleted |-> FALSE, notified |-> << newHeight >>]
    [] platform.state = "WAITING" ->
         LET t == platform.waitTimer - 1
             atTop == currentHeight >= platform.highHeight
         IN  [same EXCEPT !.platform =
                [platform EXCEPT !.waitTimer = t,
                                 !.state = IF t <= 0
                                             THEN (IF atTop THEN "DOWN" ELSE "UP")
                                             ELSE "WAITING"]]
    [] OTHER -> same

\* updatePlatforms that also drops a platform once it starts waiting
updatePlatformsDropWaiting(ps, secs) ==
  LET upd(s) == updatePlatform(ps[s], secs[s])
      gone(s) == upd(s).deleted \/ upd(s).platform.state = "WAITING"
  IN  [platforms |-> [s \in {x \in DOMAIN ps : ~gone(x)} |-> upd(s).platform],
       sectors   |-> [s \in DOMAIN secs |->
                        IF s \in DOMAIN ps
                          THEN [secs[s] EXCEPT !.floorheight = upd(s).floorheight]
                          ELSE secs[s]],
       notified  |-> [s \in DOMAIN ps |-> upd(s).notified]]

\* updatePlatforms(): every active platform is updated once
updatePlatforms(ps, secs) ==
  LET upd(s) == updatePlatform(ps[s], secs[s])
  IN  [platforms |-> [s \in {x \in DOMAIN ps : ~upd(x).deleted} |-> upd(s).platform],
       sectors   |-> [s \in DOMAIN secs |->
                        IF s \in DOMAIN ps
                          THEN [secs[s] EXCEPT !.floorheight = upd(s).floorheight]
                          ELSE secs[s]],
       notified  |-> [s \in DOMAIN ps |-> upd(s).notified]]

\* ------------------------------------------------------------------------
\* The level: a corridor along the x axis.  Every linedef is a vertical
\* segment from (x, -64) to (x, 64) that crosses the corridor.
\* ------------------------------------------------------------------------
\* mapData.vertexes[line.v1], mapData.vertexes[line.v2]
Vertex1(line) == [x |-> line.x, y |-> 0 - 64]
Vertex2(line) == [x |-> line.x, y |-> 64]

Linedefs ==
  [i \in 0 .. 7 |->
     CASE i = 0 -> [x |-> 32, special |-> 1,  tag |-> 1]   \* DR  door open-wait-close
       [] i = 1 -> [x |-> 32, special |-> 2,  tag |-> 1]   \* W1  door open stay
       [] i = 2 -> [x |-> 32, special |-> 62, tag |-> 1]   \* SR  platform lower-wait-raise
       [] i = 3 -> [x |-> 96, special |-> 87, tag |-> 2]   \* SR  platform perpetual
       [] i = 4 -> [x |-> 96, special |-> 10, tag |-> 2]   \* W1  platform lower-wait-raise
       [] i = 5 -> [x |-> 96, special |-> 3,  tag |-> 2]   \* W1  door close stay
       [] i = 6 -> [x |-> 96, special |-> 4,  tag |-> 0]   \* W1  door, no tag
       [] OTHER -> [x |-> 32, special |-> 0,  tag |-> 0]]  \* plain wall

\* line indices a caller may pass: the valid ones and one past the end
LineArgs == (DOMAIN Linedefs) \cup {8}

\* where the player can stand (y = 0)
PlayerXs == {0, 64, 128}

\* the heights a sector of the level can start with, in whole map units
SectorShapes ==
  { [floor |-> 0,    ceiling |-> 0],      \* a closed door
    [floor |-> 0,    ceiling |-> 136],    \* a room
    [floor |-> -136, ceiling |-> -136] }  \* a closed door below zero
\* the tags the two sectors can carry
TagChoices == { <<1, 2>>, <<1, 1>> }

\* ------------------------------------------------------------------------
\* TriggerSystem (game/Pickups.ts)
\* ------------------------------------------------------------------------
UseRange == 64

\* pointToLineDistance(px, py, x1, y1, x2, y2) <= r, on whole coordinates
\* (the squared distance is compared; with t strictly inside (0,1) it is
\* (|p-v1|^2 * len^2 - dot^2) / len^2)
pointToLineDistanceLE(px, py, x1, y1, x2, y2, r) ==
  LET dx == x2 - x1
      dy == y2 - y1
      lengthSquared == dx * dx + dy * dy
      d1 == (px - x1) * (px - x1) + (py - y1) * (py - y1)
      d2 == (px - x2) * (px - x2) + (py - y2) * (py - y2)
      dot == (px - x1) * dx + (py - y1) * dy
  IN  IF lengthSquared = 0 THEN d1 <= r * r
      ELSE IF dot <= 0 THEN d1 <= r * r
      ELSE IF dot >= lengthSquared THEN d2 <= r * r
      ELSE d1 * lengthSquared - dot * dot <= r * r * lengthSquared

\* lineSegmentsIntersect(x1..y4): both parameters ua, ub within [0,1]
lineSegmentsIntersect(x1, y1, x2, y2, x3, y3, x4, y4) ==
  LET denom == (y4 - y3) * (x2 - x1) - (x4 - x3) * (y2 - y1)
      na == (x4 - x3) * (y1 - y3) - (y4 - y3) * (x1 - x3)
      nb == (x2 - x1) * (y1 - y3) - (y2 - y1) * (x1 - x3)
      in01(n) == IF denom > 0 THEN 0 <= n /\ n <= denom
                 ELSE denom <= n /\ n <= 0
  IN  IF denom = 0 THEN FALSE ELSE in01(na) /\ in01(nb)

isPlayerNearLine(px, py, lineIndex) ==
  LET line == Linedefs[lineIndex]
      v1 == Vertex1(line)
      v2 == Vertex2(line)
  IN  pointToLineDistanceLE(px, py, v1.x, v1.y, v2.x, v2.y, UseRange)

lineCrossed(oldX, oldY, newX, newY, lineIndex) ==
  LET line == Linedefs[lineIndex]
      v1 == Vertex1(line)
      v2 == Vertex2(line)
  IN  lineSegmentsIntersect(oldX, oldY, newX, newY, v1.x, v1.y, v2.x, v2.y)

checkActivationType(special, activation) ==
  IF special = 1 THEN activation = "USE"
  ELSE IF special \in {2, 3, 4, 10, 88} THEN activation = "WALK"
  ELSE IF special \in {61, 62, 63, 42, 87} THEN activation = "USE"
  ELSE FALSE

\* isOnceOnly with an empty list of once-only specials
isOnceOnlyNever(special) == FALSE

isOnceOnly(special) == special \in {2, 3, 4, 10}

\* The state the trigger system works on: w = [doors, platforms, activated]
RECURSIVE doorByTagFrom(_, _, _, _, _)
doorByTagFrom(w, secs, tag, doorType, i) ==
  IF i \notin DOMAIN secs THEN [ok |-> FALSE, w |-> w]
  ELSE IF secs[i].tag = tag
    THEN LET r == activateDoor(w.doors, secs, i, doorType)
             rest == doorByTagFrom([w EXCEPT !.doors = r.doors], secs, tag, doorType, i + 1)
         IN  [ok |-> r.ok \/ rest.ok, w |-> rest.w]
    ELSE doorByTagFrom(w, secs, tag, doorType, i + 1)

activateDoorByTag(w, secs, tag, doorType) ==
  IF tag = 0 THEN [ok |-> FALSE, w |-> w]
  ELSE doorByTagFrom(w, secs, tag, doorType, 0)

RECURSIVE platformByTagFrom(_, _, _, _, _)
platformByTagFrom(w, secs, tag, platformType, i) ==
  IF i \notin DOMAIN secs THEN [ok |-> FALSE, w |-> w]
  ELSE IF secs[i].tag = tag
    THEN LET r == activatePlatform(w.platforms, secs, i, platformType, PlatDefaultSpeed)
             rest == platformByTagFrom([w EXCEPT !.platforms = r.platforms], secs, tag,
                                       platformType, i + 1)
         IN  [ok |-> r.ok \/ rest.ok, w |-> rest.w]
    ELSE platformByTagFrom(w, secs, tag, platformType, i + 1)

activatePlatformByTag(w, secs, tag, platformType) ==
  IF tag = 0 THEN [ok |-> FALSE, w |-> w]
  ELSE platformByTagFrom(w, secs, tag, platformType, 0)

executeSpecial(w, secs, line) ==
  LET special == line.special IN
  IF special \in {1, 4, 63} THEN activateDoorByTag(w, secs, line.tag, "NORMAL")
  ELSE IF special \in {2, 61} THEN activateDoorByTag(w, secs, line.tag, "OPEN_STAY")
  ELSE IF special \in {3, 42} THEN activateDoorByTag(w, secs, line.tag, "CLOSE")
  ELSE IF special \in {62, 88, 10} THEN activatePlatformByTag(w, secs, line.tag, "LOWER_AND_WAIT")
  ELSE IF special = 87 THEN activatePlatformByTag(w, secs, line.tag, "PERPETUAL_RAISE")
  ELSE [ok |-> FALSE, w |-> w]

\* activateLine that records a once-only line whatever executeSpecial returned
activateLineAlwaysRecords(w, secs, lineIndex, activation) ==
  IF lineIndex \notin DOMAIN Linedefs \/ Linedefs[lineIndex].special = 0
    THEN [ok |-> FALSE, w |-> w]
  ELSE
    LET line == Linedefs[lineIndex]
        onceOnly == isOnceOnly(line.special)
    IN  IF ~checkActivationType(line.special, activation)
          THEN [ok |-> FALSE, w |-> w]
        ELSE IF onceOnly /\ lineIndex \in w.activated
          THEN [ok |-> FALSE, w |-> w]
        ELSE
          LET r == executeSpecial(w, secs, line)
          IN  [ok |-> r.ok,
               w  |-> IF onceOnly
                        THEN [r.w EXCEPT !.activated = @ \cup {lineIndex}]
                        ELSE r.w]

activateLine(w, secs, lineIndex, activation) ==
  IF lineIndex \notin DOMAIN Linedefs \/ Linedefs[lineIndex].special = 0
    THEN [ok |-> FALSE, w |-> w]
  ELSE
    LET line == Linedefs[lineIndex]
        onceOnly == isOnceOnly(line.special)
    IN  IF ~checkActivationType(line.special, activation)
          THEN [ok |-> FALSE, w |-> w]
        ELSE IF onceOnly /\ lineIndex \in w.activated
          THEN [ok |-> FALSE, w |-> w]
        ELSE
          LET r == executeSpecial(w, secs, line)
          IN  [ok |-> r.ok,
               w  |-> IF r.ok /\ onceOnly
                        THEN [r.w EXCEPT !.activated = @ \cup {lineIndex}]
                        ELSE r.w]

useLine(w, secs, px, py, lineIndex) ==
  IF lineIndex \notin DOMAIN Linedefs \/ Linedefs[lineIndex].special = 0
    THEN [ok |-> FALSE, w |-> w]
  ELSE IF ~isPlayerNearLine(px, py, lineIndex)
    THEN [ok |-> FALSE, w |-> w]
  ELSE activateLine(w, secs, lineIndex, "USE")

\* checkWalkTriggers(player, oldX, oldY): the lines are tried in index order
RECURSIVE walkTriggersFrom(_, _, _, _, _, _, _)
walkTriggersFrom(w, secs, oldX, oldY, newX, newY, i) ==
  IF i \notin DOMAIN Linedefs THEN w
  ELSE IF Linedefs[i].special # 0 /\ lineCrossed(oldX, oldY, newX, newY, i)
    THEN walkTriggersFrom(activateLine(w, secs, i, "WALK").w, secs,
                          oldX, oldY, newX, newY, i + 1)
    ELSE walkTriggersFrom(w, secs, oldX, oldY, newX, newY, i + 1)

checkWalkTriggers(w, secs, oldX, oldY, newX, newY) ==
  walkTriggersFrom(w, secs, oldX, oldY, newX, newY, 0)

\* ------------------------------------------------------------------------
\* game/Thinker.ts
\* ------------------------------------------------------------------------
NewManager == [head |-> 0, tail |-> 0, thinkerCount |-> 0, nodes |-> << >>]
NoRun == [active |-> FALSE, current |-> 0, started |-> {}, registered |-> {},
          removed |-> {}, added |-> {}, stale |-> {}, visited |-> << >>,
          passes |-> 0]

Handles(m) == 1 .. Len(m.nodes)


\* addThinker that links the new thinker in at the head of the list
addThinkerAtHead(m) ==
  LET h == Len(m.nodes) + 1 IN
  IF m.head = 0
    THEN [m EXCEPT !.nodes = Append(@, [prev |-> 0, next |-> 0]),
                   !.head = h,
                   !.tail = h,
                   !.thinkerCount = @ + 1]
    ELSE [m EXCEPT !.nodes =
                     [Append(@, [prev |-> 0, next |-> m.head])
                        EXCEPT ![m.head].prev = h],
                   !.head = h,
                   !.thinkerCount = @ + 1]

\* addThinker(mobj, thinkFunc); the new Thinker is handle Len(nodes) + 1
addThinker(m) ==
  LET h == Len(m.nodes) + 1 IN
  IF m.head = 0
    THEN [m EXCEPT !.nodes = Append(@, [prev |-> 0, next |-> 0]),
                   !.head = h,
                   !.tail = h,
                   !.thinkerCount = @ + 1]
    ELSE [m EXCEPT !.nodes =
                     LET n1 == Append(@, [prev |-> m.tail, next |-> 0])
                     IN  IF m.tail # 0
                           THEN [n1 EXCEPT ![m.tail].next = h]
                           ELSE n1,
                   !.tail = h,
                   !.thinkerCount = @ + 1]

\* removeThinker that also clears the removed thinker's own prev and next
removeThinkerUnlinking(m, h) ==
  LET t == m.nodes[h]
      m1 == IF t.prev # 0
              THEN [m EXCEPT !.nodes[t.prev].next = t.next]
              ELSE [m EXCEPT !.head = t.next]
      m2 == IF t.next # 0
              THEN [m1 EXCEPT !.nodes[t.next].prev = t.prev]
              ELSE [m1 EXCEPT !.tail = t.prev]
  IN  [m2 EXCEPT !.thinkerCount = @ - 1,
                 !.nodes[h] = [prev |-> 0, next |-> 0]]

\* removeThinker(thinker)
removeThinker(m, h) ==
  LET t == m.nodes[h]
      m1 == IF t.prev # 0
              THEN [m EXCEPT !.nodes[t.prev].next = t.next]
              ELSE [m EXCEPT !.head = t.next]
      m2 == IF t.next # 0
              THEN [m1 EXCEPT !.nodes[t.next].prev = t.prev]
              ELSE [m1 EXCEPT !.tail = t.prev]
  IN  [m2 EXCEPT !.thinkerCount = @ - 1]

\* clear()
clear(m) == [m EXCEPT !.head = 0, !.tail = 0, !.thinkerCount = 0]

\* getCount()
getCount(m) == m.thinkerCount

\* getAllThinkers(): the handles reached from head by next
RECURSIVE ChainFrom(_, _, _)
ChainFrom(m, h, fuel) ==
  IF h = 0 \/ fuel = 0 THEN << >>
  ELSE << h >> \o ChainFrom(m, m.nodes[h].next, fuel - 1)

getAllThinkers(m) == ChainFrom(m, m.head, Len(m.nodes) + 1)

Range(seq) == { seq[i] : i \in DOMAIN seq }
Count(seq, x) == Cardinality({ i \in DOMAIN seq : seq[i] = x })

\* What a behaviour may do when it is called: a sequence of manager calls,
\* each removeThinker(h) on a handle it holds, or addThinker
ThinkOps(m) == { [op |-> "remove", h |-> h] : h \in Handles(m) }
               \cup { [op |-> "add", h |-> 0] }

\* the manager, the live set and the pass record after one such call;
\* stale collects the handles that were removed when no longer registered
ApplyOp(w, o) ==
  IF o.op = "remove"
    THEN IF w.m.thinkerCount + MaxOverRemove <= 0 THEN w ELSE
         [m       |-> removeThinker(w.m, o.h),
          live    |-> w.live \ {o.h},
          removed |-> w.removed \cup {o.h},
          added   |-> w.added,
          stale   |-> IF o.h \in w.live THEN w.stale ELSE w.stale \cup {o.h}]
  ELSE IF Len(w.m.nodes) < MaxThinkers
    THEN [m       |-> addThinker(w.m),
          live    |-> w.live \cup {Len(w.m.nodes) + 1},
          removed |-> w.removed,
          added   |-> w.added \cup {Len(w.m.nodes) + 1},
          stale   |-> w.stale]
    ELSE w

RECURSIVE ApplyOps(_, _)
ApplyOps(w, ops) ==
  IF ops = << >> THEN w ELSE ApplyOps(ApplyOp(w, Head(ops)), Tail(ops))

OpSeqs(m) ==
  UNION { [1 .. n -> ThinkOps(m)] : n \in 0 .. MaxThinkOps }

InitThinkers ==
  /\ tm = NewManager
  /\ live = {}
  /\ run = NoRun
  /\ misused = FALSE

\* thinkerManager.addThinker(mobj, thinkFunc), outside a pass
AddThinker ==
  /\ ~run.active
  /\ Len(tm.nodes) < MaxThinkers
  /\ tm' = addThinker(tm)
  /\ live' = live \cup {Len(tm.nodes) + 1}
  /\ UNCHANGED << run, misused, worldVars >>

\* thinkerManager.removeThinker(thinker), outside a pass
RemoveThinker(h) ==
  /\ ~run.active
  /\ tm.thinkerCount + MaxOverRemove > 0
  /\ tm' = removeThinker(tm, h)
  /\ live' = live \ {h}
  /\ misused' = (misused \/ h \notin live)
  /\ UNCHANGED << run, worldVars >>

\* thinkerManager.clear(), outside a pass
Clear ==
  /\ ~run.active
  /\ tm' = clear(tm)
  /\ live' = {}
  /\ UNCHANGED << run, misused, worldVars >>

\* runThinkers(): let current = this.head
RunBegin ==
  /\ ~run.active
  /\ run' = [active |-> TRUE, current |-> tm.head,
             started |-> Range(getAllThinkers(tm)), registered |-> live,
             removed |-> {}, added |-> {}, stale |-> {}, visited |-> << >>,
             passes |-> Min(run.passes + 1, 1)]
  /\ UNCHANGED << tm, live, misused, worldVars >>

\* one turn of the loop: next is saved, current's behaviour is called (and
\* makes the calls ops), current becomes next
RunVisit(ops) ==
  LET next == tm.nodes[run.current].next
      w == ApplyOps([m |-> tm, live |-> live, removed |-> run.removed,
                     added |-> run.added, stale |-> run.stale], ops)
  IN
  /\ run.active
  /\ run.current # 0
  /\ tm' = w.m
  /\ live' = w.live
  /\ run' = [run EXCEPT !.current = next,
                        !.removed = w.removed,
                        !.added = w.added,
                        !.stale = w.stale,
                        !.visited = Append(@, run.current)]
  /\ misused' = (misused \/ w.stale # {})
  /\ UNCHANGED worldVars

\* the loop ends when current is undefined
RunEnd ==
  /\ run.active
  /\ run.current = 0
  /\ run' = [run EXCEPT !.active = FALSE]
  /\ UNCHANGED << tm, live, misused, worldVars >>

\* ---- a thinker manager on its own
NextThinkers ==
  \/ AddThinker
  \/ \E h \in Handles(tm) : RemoveThinker(h)
  \/ Clear
  \/ RunBegin
  \/ \E ops \in OpSeqs(tm) : RunVisit(ops)
  \/ RunEnd

\* ------------------------------------------------------------------------
\* physics: collision with floor/ceiling tracking, gravity, vertical movement
\* ------------------------------------------------------------------------
MAX_STEP_HEIGHT == 24
ML_BLOCKING == 1
ML_TWOSIDED == 4
GRAVITY == FRACUNIT
PLAYERRADIUS == 16 * FRACUNIT
PLAYERHEIGHT == 56 * FRACUNIT

\* FloatToFixed(x) = (x * FRACUNIT) | 0: of the float whose scaled
\* representation is h, the integer h (heights here stay within 32 bits)
FloatToFixed(h) == h

\* a scaled float that is a whole number of units, as that number.  Every
\* coordinate, radius and momentum of this model is a whole number of units,
\* so the geometry below is computed on whole numbers.
Whole(h) == h \div FRACUNIT

\* flags & bit, for a bit that is a power of two
HasFlag(flags, bit) == (flags \div bit) % 2 = 1

\* circleLineIntersection(cx, cy, radius, x1, y1, x2, y2): the centre is
\* projected on the segment, the parameter t clamped to [0, 1], and the
\* distance to the closest point compared with the radius (strictly).  With
\* t = dot / len2 the comparison distance < radius is, squared and multiplied
\* by len2, (|d|^2 - radius^2) * len2 < dot^2.
circleLineIntersection(cx, cy, radius, x1, y1, x2, y2) ==
  LET dx == cx - x1
      dy == cy - y1
      lx == x2 - x1
      ly == y2 - y1
      len2 == lx * lx + ly * ly
      dot == dx * lx + dy * ly
  IN  IF len2 = 0 THEN FALSE
      ELSE IF dot <= 0 THEN dx * dx + dy * dy < radius * radius
      ELSE IF dot >= len2
        THEN (cx - x2) * (cx - x2) + (cy - y2) * (cy - y2) < radius * radius
      ELSE (dx * dx + dy * dy - radius * radius) * len2 < dot * dot

\* whether a linedef stops movement: one-sided walls always, two-sided
\* walls only with ML_BLOCKING
IsBlockingLine(linedef) ==
  ~HasFlag(linedef.flags, ML_TWOSIDED) \/ HasFlag(linedef.flags, ML_BLOCKING)

\* checkWallCollision(mobj, newX, newY, mapData): TRUE when the move is allowed
checkWallCollision(m, newX, newY, map) ==
  LET x == Whole(FixedToFloat(newX))
      y == Whole(FixedToFloat(newY))
      radius == Whole(FixedToFloat(m.radius))
  IN  \A i \in DOMAIN map.linedefs :
        LET linedef == map.linedefs[i]
            v1 == map.vertexes[linedef.v1]
            v2 == map.vertexes[linedef.v2]
        IN  IsBlockingLine(linedef)
              => ~circleLineIntersection(x, y, radius, v1.x, v1.y, v2.x, v2.y)

\* the linedefs whose front or back sidedef references the sector
SectorLines(sectorIdx, map) ==
  { i \in DOMAIN map.linedefs :
      LET frontSide == map.linedefs[i].sidenum[1]
          backSide == map.linedefs[i].sidenum[2]
      IN  \/ frontSide # -1 /\ map.sidedefs[frontSide].sector = sectorIdx
          \/ backSide # -1 /\ map.sidedefs[backSide].sector = sectorIdx }

\* one step of the ray casting: the ray from (x, y) toward +x crosses the
\* line.  x < (x2 - x1) * (y - y1) / (y2 - y1) + x1 is multiplied by y2 - y1.
RayCrosses(x, y, v1, v2) ==
  /\ (v1.y > y) # (v2.y > y)
  /\ IF v2.y > v1.y
       THEN (x - v1.x) * (v2.y - v1.y) < (v2.x - v1.x) * (y - v1.y)
       ELSE (x - v1.x) * (v2.y - v1.y) > (v2.x - v1.x) * (y - v1.y)

\* findSectorAtPoint(x, y, mapData): the first sector an odd number of whose
\* lines the ray crosses, or -1
findSectorAtPoint(x, y, map) ==
  LET inside(s) ==
        Cardinality({ i \in SectorLines(s, map) :
                        RayCrosses(x, y, map.vertexes[map.linedefs[i].v1],
                                         map.vertexes[map.linedefs[i].v2]) }) % 2 = 1
      found == { s \in DOMAIN map.sectors : inside(s) }
  IN  IF found = {} THEN -1
      ELSE CHOOSE s \in found : \A t \in found : s <= t

\* updateFloorCeiling(mobj, mapData)
updateFloorCeiling(m, map) ==
  LET sectorIdx == findSectorAtPoint(Whole(FixedToFloat(m.x)),
                                     Whole(FixedToFloat(m.y)), map)
  IN  IF sectorIdx >= 0
        THEN [m EXCEPT !.floorz = FloatToFixed(map.sectors[sectorIdx].floorheight),
                       !.ceilingz = FloatToFixed(map.sectors[sectorIdx].ceilingheight)]
        ELSE m

\* the wall-sliding branch of applyCollision: X alone, then Y alone from
\* wherever the entity now is, then the momentum is zeroed if both checks fail
slideAlongWalls(m, map) ==
  LET newX_only == m.x + m.momx
      afterX == IF checkWallCollision(m, newX_only, m.y, map)
                  THEN updateFloorCeiling([m EXCEPT !.x = newX_only], map)
                  ELSE m
      newY_only == afterX.y + afterX.momy
      afterY == IF checkWallCollision(afterX, afterX.x, newY_only, map)
                  THEN updateFloorCeiling([afterX EXCEPT !.y = newY_only], map)
                  ELSE afterX
  IN  IF /\ ~checkWallCollision(afterY, newX_only, afterY.y, map)
         /\ ~checkWallCollision(afterY, afterY.x, newY_only, map)
        THEN [afterY EXCEPT !.momx = 0, !.momy = 0]
        ELSE afterY

\* the branch of applyCollision taken when the full move is allowed: the
\* move is committed, then stepped up, kept, or reverted
commitFullMove(m, map) ==
  LET moved == updateFloorCeiling([m EXCEPT !.x = m.x + m.momx,
                                            !.y = m.y + m.momy], map)
      stepHeight == FixedToFloat(moved.floorz) - FixedToFloat(moved.z)
  IN  IF stepHeight > 0 /\ stepHeight <= Units(MAX_STEP_HEIGHT)
        THEN [moved EXCEPT !.z = moved.floorz]
      ELSE IF stepHeight <= 0 THEN moved
      ELSE updateFloorCeiling(
             [moved EXCEPT !.x = moved.x - moved.momx,
                           !.y = moved.y - moved.momy,
                           !.momx = 0, !.momy = 0], map)

\* applyCollision zeroing the momentum whatever the retries did
applyCollisionAlwaysStop(m, map) ==
  IF checkWallCollision(m, m.x + m.momx, m.y + m.momy, map)
    THEN commitFullMove(m, map)
    ELSE [slideAlongWalls(m, map) EXCEPT !.momx = 0, !.momy = 0]

\* applyCollision committing the full move without the wall check
applyCollisionUnchecked(m, map) == commitFullMove(m, map)

\* applyCollision(mobj, mapData)
applyCollision(m, map) ==
  LET newX == m.x + m.momx
      newY == m.y + m.momy
  IN  IF checkWallCollision(m, newX, newY, map)
        THEN commitFullMove(m, map)
        ELSE slideAlongWalls(m, map)

\* applyGravity without the on-ground test
applyGravityAlways(m) ==
  IF m.nogravity THEN m ELSE [m EXCEPT !.momz = m.momz - GRAVITY]

\* applyGravity(mobj)
applyGravity(m) ==
  IF m.nogravity THEN m
  ELSE IF m.z <= m.floorz THEN [m EXCEPT !.momz = 0]
  ELSE [m EXCEPT !.momz = m.momz - GRAVITY]

\* applyZMomentum without the clamp to the floor
applyZMomentumNoFloor(m) ==
  LET moved == [m EXCEPT !.z = m.z + m.momz]
  IN  IF moved.z + moved.height > moved.ceilingz
        THEN [moved EXCEPT !.z = moved.ceilingz - moved.height, !.momz = 0]
        ELSE moved

\* applyZMomentum(mobj)
applyZMomentum(m) ==
  LET moved == [m EXCEPT !.z = m.z + m.momz]
      floored == IF moved.z < moved.floorz
                   THEN [moved EXCEPT !.z = moved.floorz, !.momz = 0]
                   ELSE moved
  IN  IF floored.z + floored.height > floored.ceilingz
        THEN [floored EXCEPT !.z = floored.ceilingz - floored.height, !.momz = 0]
        ELSE floored

FRICTION == 59392
STOPSPEED == 4096

\* applyFriction that does not look at the ground
applyFrictionInAir(m) ==
  IF m.momx = 0 /\ m.momy = 0 THEN m
  ELSE LET mx == FixedMul(m.momx, FRICTION)
           my == FixedMul(m.momy, FRICTION)
       IN  [m EXCEPT !.momx = IF 0 - STOPSPEED < mx /\ mx < STOPSPEED THEN 0 ELSE mx,
                     !.momy = IF 0 - STOPSPEED < my /\ my < STOPSPEED THEN 0 ELSE my]

\* applyFriction(mobj); Math.abs(v) < STOPSPEED is -STOPSPEED < v < STOPSPEED
applyFriction(m) ==
  IF m.momx = 0 /\ m.momy = 0 THEN m
  ELSE IF m.z <= m.floorz
    THEN LET mx == FixedMul(m.momx, FRICTION)
             my == FixedMul(m.momy, FRICTION)
         IN  [m EXCEPT !.momx = IF 0 - STOPSPEED < mx /\ mx < STOPSPEED THEN 0 ELSE mx,
                       !.momy = IF 0 - STOPSPEED < my /\ my < STOPSPEED THEN 0 ELSE my]
    ELSE m

\* ---- a map of two rooms side by side, 64 units square each: one-sided
\* ---- walls all around and a two-sided line between the rooms
Vertexes ==
  [i \in 0 .. 5 |->
     [x |-> IF i \in {0, 5} THEN 0 ELSE IF i \in {1, 4} THEN 64 ELSE 128,
      y |-> IF i <= 2 THEN 0 ELSE 64]]

Wall(a, b, side) ==
  [v1 |-> a, v2 |-> b, flags |-> ML_BLOCKING, sidenum |-> << side, -1 >>]

TwoRooms(midFlags, floorB, ceilingB) ==
  [vertexes |-> Vertexes,
   sidedefs |-> [i \in 0 .. 1 |-> [sector |-> i]],
   linedefs |-> [i \in 0 .. 6 |->
                   CASE i = 0 -> Wall(0, 1, 0)
                     [] i = 1 -> Wall(1, 2, 1)
                     [] i = 2 -> Wall(2, 3, 1)
                     [] i = 3 -> Wall(3, 4, 1)
                     [] i = 4 -> Wall(4, 5, 0)
                     [] i = 5 -> Wall(5, 0, 0)
                     [] OTHER -> [v1 |-> 1, v2 |-> 4, flags |-> midFlags,
                                  sidenum |-> << 0, 1 >>]],
   sectors |-> [i \in 0 .. 1 |->
                  IF i = 0 THEN [floorheight |-> 0, ceilingheight |-> Units(128)]
                  ELSE [floorheight |-> floorB, ceilingheight |-> ceilingB]]]

NoMap == TwoRooms(ML_TWOSIDED, 0, Units(128))

\* createPlayerMobj(x, y, z, angle), the fields the physics reads
createPlayerMobj(x, y, z) ==
  [x |-> x, y |-> y, z |-> z, momx |-> 0, momy |-> 0, momz |-> 0,
   radius |-> PLAYERRADIUS, height |-> PLAYERHEIGHT,
   floorz |-> z, ceilingz |-> z + PLAYERHEIGHT, nogravity |-> FALSE]

NoMobj == createPlayerMobj(0, 0, 0)
NoPhysLog == [step |-> "none", before |-> NoMobj]

PhysicsIdle == mobj = NoMobj /\ mapData = NoMap /\ physLog = NoPhysLog

\* the momenta tried, in whole units per tick
MomentumUnits == {-16, 0, 16}

\* movePlayer and applyFriction: what they leave in momx and momy is an
\* input here
SetMomentum(mx, my) ==
  /\ physLog.step \in {"new", "zmomentum"}
  /\ mobj' = [mobj EXCEPT !.momx = Units(mx), !.momy = Units(my)]
  /\ physLog' = [step |-> "momentum", before |-> mobj]
  /\ UNCHANGED << mapData, fx, tickerVars, bspVars, machVars, gameVars, histVars, thinkVars >>

\* applyGravity(playerMobj), called after the steps in `after`
Gravity(after) ==
  /\ physLog.step \in after
  /\ mobj' = applyGravity(mobj)
  /\ physLog' = [step |-> "gravity", before |-> mobj]
  /\ UNCHANGED << mapData, fx, tickerVars, bspVars, machVars, gameVars, histVars, thinkVars >>

\* applyFriction(playerMobj)
Friction ==
  /\ physLog.step \in {"new", "friction"}
  /\ mobj' = applyFriction(mobj)
  /\ physLog' = [step |-> "friction", before |-> mobj]
  /\ UNCHANGED << mapData, fx, tickerVars, bspVars, machVars, gameVars, histVars, thinkVars >>

\* applyCollision(playerMobj, mapData)
Collision ==
  /\ physLog.step = "gravity"
  /\ mobj' = applyCollision(mobj, mapData)
  /\ physLog' = [step |-> "collision", before |-> mobj]
  /\ UNCHANGED << mapData, fx, tickerVars, bspVars, machVars, gameVars, histVars, thinkVars >>

\* applyZMomentum(playerMobj), called after the steps in `after`
ZMomentum(after) ==
  /\ physLog.step \in after
  /\ mobj' = applyZMomentum(mobj)
  /\ physLog' = [step |-> "zmomentum", before |-> mobj]
  /\ UNCHANGED << mapData, fx, tickerVars, bspVars, machVars, gameVars, histVars, thinkVars >>

\* ------------------------------------------------------------------------
\* core/ticker.ts: GameTicker, and the tick function of test-ticker.ts
\* ------------------------------------------------------------------------
\* Time is counted in quanta; TICK_DURATION (1000 / TICRATE ms) is this
\* many quanta
TICK_DURATION == 2
maxTicks == 4
\* the longest time the host lets pass between two reads of the clock
MaxElapsed == (2 * maxTicks + 1) * TICK_DURATION + 1
\* the tick count at which the tick function stops the ticker (TICRATE * 10
\* in test-ticker.ts), and the tick count at which time stops passing
StopAtTick == 3
MaxTestTicks == 6
\* frame callbacks requested and not yet run
MaxScheduled == 2

\* new GameTicker(tickFunction).  lastTime is kept as elapsed, the time
\* performance.now() has advanced since lastTime was written; scheduled
\* counts the requestAnimationFrame callbacks not yet run; inFrame and
\* ticksThisFrame are the position of tick() and its local variable.
NewTicker ==
  [running |-> FALSE, currentTick |-> 0, accumulator |-> 0, elapsed |-> 0,
   scheduled |-> 0, inFrame |-> FALSE, ticksThisFrame |-> 0]

\* what is remembered of the calls: the tick numbers passed to the tick
\* function since the last start(), and of the last frame callback: the
\* tick counter and the ticks owed
\* (min(maxTicks, floor(accumulator / TICK_DURATION))) when the elapsed time
\* had been added, and whether it reset the accumulator
NoTickLog == [calls |-> << >>, startTick |-> 0, owed |-> 0, reset |-> FALSE]

NewTest == [tickCount |-> 0]

TickerIdle == ticker = NewTicker /\ test = NewTest /\ tickLog = NoTickLog

\* stop()
stop(t) == [t EXCEPT !.running = FALSE]

\* the while condition without the cap on the ticks of one frame
loopConditionUncapped(t) == t.accumulator >= TICK_DURATION

\* tick() after the loop without the reset
afterLoopNoReset(t) ==
  [t EXCEPT !.scheduled = t.scheduled + 1, !.inFrame = FALSE]

\* the while condition of tick()
loopCondition(t) ==
  t.accumulator >= TICK_DURATION /\ t.ticksThisFrame < maxTicks

\* the body of the while loop, after tickFunction(currentTick) has returned
\* and left the ticker as t
loopBody(t) ==
  [t EXCEPT !.currentTick = t.currentTick + 1,
            !.accumulator = t.accumulator - TICK_DURATION,
            !.ticksThisFrame = t.ticksThisFrame + 1]

\* tick() after the loop: the reset, and the request for the next frame
afterLoop(t) ==
  LET kept == IF t.accumulator > TICK_DURATION * maxTicks
                THEN [t EXCEPT !.accumulator = 0]
                ELSE t
  IN  [kept EXCEPT !.scheduled = kept.scheduled + 1, !.inFrame = FALSE]

\* testTick(tick): counts, and stops the ticker from StopAtTick on
testTick(tst, t) ==
  LET counted == [tst EXCEPT !.tickCount = tst.tickCount + 1]
  IN  [test |-> counted,
       ticker |-> IF counted.tickCount >= StopAtTick THEN stop(t) ELSE t]

\* ticker.start(): nothing if running; else the fields are reset and tick()
\* runs at once, with no time elapsed: no tick is owed, and it requests the
\* first frame
Start ==
  /\ ~ticker.inFrame
  /\ ~ticker.running
  /\ ticker.scheduled < MaxScheduled
  /\ ticker' = afterLoop([ticker EXCEPT !.running = TRUE, !.elapsed = 0,
                                         !.accumulator = 0, !.currentTick = 0,
                                         !.ticksThisFrame = 0])
  /\ tickLog' = NoTickLog
  /\ UNCHANGED << test, fx, physVars, bspVars, machVars, gameVars, histVars, thinkVars >>

\* ticker.stop(), called between frames
Stop ==
  /\ ~ticker.inFrame
  /\ ticker.running
  /\ ticker' = stop(ticker)
  /\ UNCHANGED << test, tickLog, fx, physVars, bspVars, machVars, gameVars, histVars, thinkVars >>

\* the host's clock advances by d quanta
Advance(d) ==
  /\ ~ticker.inFrame
  /\ test.tickCount < MaxTestTicks
  /\ ticker.elapsed + d <= MaxElapsed
  /\ ticker' = [ticker EXCEPT !.elapsed = ticker.elapsed + d]
  /\ UNCHANGED << test, tickLog, fx, physVars, bspVars, machVars, gameVars, histVars, thinkVars >>

\* a requested frame callback runs tick() up to its loop: a stopped ticker
\* returns at once, a running one adds the elapsed time to the accumulator
FrameBegin ==
  /\ ~ticker.inFrame
  /\ ticker.scheduled > 0
  /\ IF ~ticker.running
       THEN /\ ticker' = [ticker EXCEPT !.scheduled = ticker.scheduled - 1]
            /\ UNCHANGED tickLog
       ELSE LET added == ticker.accumulator + ticker.elapsed IN
            /\ ticker' = [ticker EXCEPT !.scheduled = ticker.scheduled - 1,
                                        !.elapsed = 0,
                                        !.accumulator = added,
                                        !.ticksThisFrame = 0,
                                        !.inFrame = TRUE]
            /\ tickLog' = [tickLog EXCEPT
                             !.startTick = ticker.currentTick,
                             !.owed = Min(maxTicks, added \div TICK_DURATION),
                             !.reset = FALSE]
  /\ UNCHANGED << test, fx, physVars, bspVars, machVars, gameVars, histVars, thinkVars >>

\* one turn of the while loop: tickFunction(currentTick), then the counters
FrameTick ==
  /\ ticker.inFrame
  /\ loopCondition(ticker)
  /\ LET r == testTick(test, ticker) IN
       /\ test' = r.test
       /\ ticker' = loopBody(r.ticker)
  /\ tickLog' = [tickLog EXCEPT
                   !.calls = Append(tickLog.calls, ticker.currentTick)]
  /\ UNCHANGED << fx, physVars, bspVars, machVars, gameVars, histVars, thinkVars >>

\* the loop is left: the reset, and requestAnimationFrame(this.tick)
FrameEnd ==
  /\ ticker.inFrame
  /\ ~loopCondition(ticker)
  /\ ticker' = afterLoop(ticker)
  /\ tickLog' = [tickLog EXCEPT
                   !.reset = ticker.accumulator > TICK_DURATION * maxTicks]
  /\ UNCHANGED << test, fx, physVars, bspVars, machVars, gameVars, histVars, thinkVars >>

NextTicker ==
  \/ Start
  \/ Stop
  \/ \E d \in {1, TICK_DURATION, maxTicks * TICK_DURATION} : Advance(d)
  \/ FrameBegin
  \/ FrameTick
  \/ FrameEnd

\* ------------------------------------------------------------------------
\* BSPRenderer (src/unnamed/part_001)
\* ------------------------------------------------------------------------

\* bit 15 of a child index marks a subsector
NF_SUBSECTOR == 32768

\* most nodes of a node array
MaxNodes == 2
\* frames of traverseNode the engine's call stack holds; one more call is
\* a RangeError
MaxStack == 6

\* pointOnSide with the sides exchanged
pointOnSideFlipped(x, y, node) ==
  LET dx == x - node.x
      dy == y - node.y
      cross == dx * node.dy - dy * node.dx
  IN  IF cross <= 0 THEN 1 ELSE 0

\* pointOnSide(x, y, node): 0 for the front side, 1 for the back side
pointOnSide(x, y, node) ==
  LET dx == x - node.x
      dy == y - node.y
      cross == dx * node.dy - dy * node.dx
  IN  IF cross <= 0 THEN 0 ELSE 1

\* (nodeIndex & NF_SUBSECTOR) !== 0, for an index of at most 16 bits
IsSubsector(nodeIndex) == nodeIndex >= NF_SUBSECTOR

\* visibleSubsectors.add(i): a Set keeps its members in insertion order;
\* reached keeps every add, repeated ones too
addVisible(b, i) ==
  [b EXCEPT !.reached = Append(@, i),
            !.visible = IF i \in Range(@) THEN @ ELSE Append(@, i)]

\* a call traverseNode(nodeIndex, x, y) is made: one more frame, or no room
callTraverse(b, nodeIndex) ==
  IF Len(b.stack) >= MaxStack
    THEN [b EXCEPT !.status = "RangeError"]
    ELSE [b EXCEPT !.stack = Append(@, [node |-> nodeIndex, at |-> "enter",
                                         side |-> 0])]

\* the frame on top returns to its caller
returnTraverse(b) == [b EXCEPT !.stack = SubSeq(@, 1, Len(@) - 1)]

\* traverseNode from its first line to its first recursive call
enterNode(b) ==
  LET nodeIndex == b.stack[Len(b.stack)].node IN
  IF IsSubsector(nodeIndex)
    THEN LET subsectorIndex == nodeIndex - NF_SUBSECTOR
         IN  IF subsectorIndex < b.numSubsectors
               THEN returnTraverse(addVisible(b, subsectorIndex))
               ELSE returnTraverse(b)
  ELSE IF nodeIndex >= Len(b.nodes)
    THEN returnTraverse(b)
  ELSE LET node == b.nodes[nodeIndex + 1]
           side == pointOnSide(b.x, b.y, node)
           here == [b EXCEPT !.stack[Len(b.stack)] =
                                [node |-> nodeIndex, at |-> "near", side |-> side]]
       IN  callTraverse(here, node.children[side + 1])

\* traverseNode after its first recursive call, the second call left out
afterNearSkipFar(b) == returnTraverse(b)

\* traverseNode after its first recursive call has returned: the other side
afterNear(b) ==
  LET top == b.stack[Len(b.stack)]
      node == b.nodes[top.node + 1]
      here == [b EXCEPT !.stack[Len(b.stack)] = [top EXCEPT !.at = "far"]]
  IN  callTraverse(here, node.children[(1 - top.side) + 1])

\* one step of the frame on top of the stack
traverseNode(b) ==
  LET top == b.stack[Len(b.stack)] IN
  IF top.at = "enter" THEN enterNode(b)
  ELSE IF top.at = "near" THEN afterNear(b)
  ELSE returnTraverse(b)

\* getVisibleSubsectors(cameraX, cameraY) up to its call of traverseNode
getVisibleSubsectors(b) ==
  LET cleared == [b EXCEPT !.visible = << >>, !.reached = << >>,
                           !.stack = << >>]
  IN  IF Len(b.nodes) = 0
        THEN [cleared EXCEPT
                !.visible = [i \in 1 .. b.numSubsectors |-> i - 1],
                !.reached = [i \in 1 .. b.numSubsectors |-> i - 1],
                !.status = "returned"]
        ELSE callTraverse([cleared EXCEPT !.status = "running"],
                          Len(b.nodes) - 1)

\* getSubsectorSegs(subsectorIndex): the seg indices, or a TypeError when
\* the subsector read is undefined
getSubsectorSegs(g, subsectorIndex) ==
  IF subsectorIndex >= Len(g.subsectors) THEN Returned(<< >>)
  ELSE IF subsectorIndex < 0 THEN Thrown
  ELSE LET subsector == g.subsectors[subsectorIndex + 1]
       IN  Returned([i \in 1 .. subsector.numsegs |-> subsector.firstseg + i - 1])

\* getSubsectorSector(subsectorIndex)
getSubsectorSector(g, subsectorIndex) ==
  LET segIndices == getSubsectorSegs(g, subsectorIndex) IN
  IF segIndices.kind = "throw" THEN Thrown
  ELSE IF Len(segIndices.value) = 0 THEN Returned(-1)
  ELSE IF segIndices.value[1] < 0 \/ segIndices.value[1] >= Len(g.segs)
    THEN Thrown
  ELSE LET seg == g.segs[segIndices.value[1] + 1] IN
       IF seg.linedef < 0 \/ seg.linedef >= Len(g.linedefs) THEN Returned(-1)
       ELSE LET linedef == g.linedefs[seg.linedef + 1]
                sidenum == IF seg.side = 0 THEN linedef.sidenum[1]
                                           ELSE linedef.sidenum[2]
            IN  IF sidenum < 0 \/ sidenum >= Len(g.sidedefs)
                  THEN Returned(-1)
                  ELSE Returned(g.sidedefs[sidenum + 1].sector)

NoBsp == [nodes |-> << >>, numSubsectors |-> 0, x |-> 0, y |-> 0,
          stack |-> << >>, visible |-> << >>, reached |-> << >>,
          status |-> "idle"]
NoLookup == [subsectors |-> << >>, segs |-> << >>, linedefs |-> << >>,
             sidedefs |-> << >>, index |-> 0, kind |-> "none", value |-> 0]
BspIdle == bsp = NoBsp /\ lookup = NoLookup

\* renderer.getVisibleSubsectors(x, y), up to the first call of traverseNode
GetVisibleSubsectors ==
  /\ bsp.status = "idle"
  /\ bsp' = getVisibleSubsectors(bsp)
  /\ UNCHANGED << lookup, fx, physVars, tickerVars, machVars, gameVars, histVars, thinkVars >>

\* the traversal goes on by one step
TraverseNode ==
  /\ bsp.status = "running"
  /\ bsp.stack # << >>
  /\ bsp' = traverseNode(bsp)
  /\ UNCHANGED << lookup, fx, physVars, tickerVars, machVars, gameVars, histVars, thinkVars >>

\* the root call has returned: getVisibleSubsectors returns the set
ReturnVisible ==
  /\ bsp.status = "running"
  /\ bsp.stack = << >>
  /\ bsp' = [bsp EXCEPT !.status = "returned"]
  /\ UNCHANGED << lookup, fx, physVars, tickerVars, machVars, gameVars, histVars, thinkVars >>

NextBsp ==
  \/ GetVisibleSubsectors
  \/ TraverseNode
  \/ ReturnVisible

\* renderer.getSubsectorSector(index)
GetSubsectorSector ==
  /\ lookup.kind = "none"
  /\ LET r == getSubsectorSector(lookup, lookup.index)
     IN  lookup' = [lookup EXCEPT !.kind = r.kind, !.value = r.value]
  /\ UNCHANGED << bsp, fx, physVars, tickerVars, machVars, gameVars, histVars, thinkVars >>

\* ------------------------------------------------------------------------
\* Operations on the sector machines and the trigger system
\* ------------------------------------------------------------------------

NoCalc == [a |-> 0, b |-> 0, op |-> "none", kind |-> "none", value |-> 0]
NoNote == [state |-> "NONE", before |-> 0, heights |-> << >>]

\* what an update call did to each sector, as the callback's owner sees it
NotesOf(machines, height, notified) ==
  [s \in DOMAIN sectors |->
     IF s \in DOMAIN machines
       THEN [state |-> machines[s].state, before |-> height[s],
             heights |-> notified[s]]
       ELSE NoNote]

CeilingOf == [s \in DOMAIN sectors |-> sectors[s].ceilingheight]
FloorOf == [s \in DOMAIN sectors |-> sectors[s].floorheight]

NeverLogged ==
  [ticks |-> -1, floor |-> 0, ceiling |-> 0, type |-> "NONE", waited |-> 0]
NoPlayer == [present |-> FALSE, x |-> 0, y |-> 0]
Called(op, arg, ok) == [op |-> op, arg |-> arg, ok |-> ok]

\* sector indices a caller may pass: the valid ones and one past the end
SectorArgs == (DOMAIN sectors) \cup {Cardinality(DOMAIN sectors)}

World == [doors |-> doors, platforms |-> platforms, activated |-> activatedLines]

\* the logs after an operation that may have activated machines
LogDoorsAfter(ds) ==
  [s \in DOMAIN sectors |->
     IF s \in (DOMAIN ds) \ (DOMAIN doors)
       THEN [ticks |-> 0, floor |-> sectors[s].floorheight,
             ceiling |-> sectors[s].ceilingheight, type |-> ds[s].type,
             waited |-> 0]
       ELSE doorLog[s]]

LogPlatformsAfter(ps) ==
  [s \in DOMAIN sectors |->
     IF s \in (DOMAIN ps) \ (DOMAIN platforms)
       THEN [ticks |-> 0, floor |-> sectors[s].floorheight,
             ceiling |-> sectors[s].ceilingheight, type |-> ps[s].type,
             waited |-> 0]
       ELSE platLog[s]]

Tock(log) ==
  [s \in DOMAIN log |->
     IF log[s].ticks >= 0
       THEN [log[s] EXCEPT !.ticks = Min(@ + 1, AgeCap)]
       ELSE log[s]]

\* the door log after updateDoors() on the doors ds: one more tick, and one
\* more tick begun in WAITING for every door that was waiting
TockDoors(log, ds) ==
  [s \in DOMAIN log |->
     IF s \in DOMAIN ds /\ ds[s].state = "WAITING"
       THEN [Tock(log)[s] EXCEPT !.waited = @ + 1]
       ELSE Tock(log)[s]]

\* A level of n sectors, every one with a shape and a tag
Levels(n) ==
  { [s \in 0 .. (n - 1) |->
       [floorheight   |-> Units(shape[s].floor),
        ceilingheight |-> Units(shape[s].ceiling),
        tag           |-> tags[s + 1]]] :
    shape \in [0 .. (n - 1) -> SectorShapes], tags \in TagChoices }

\* The state after the managers and the trigger system are constructed
InitLevel(level) ==
  /\ sectors = level
  /\ doors = << >>
  /\ platforms = << >>
  /\ activatedLines = {}
  /\ call = Called("new", 0, TRUE)
  /\ doorLog = [s \in DOMAIN level |-> NeverLogged]
  /\ platLog = [s \in DOMAIN level |-> NeverLogged]
  /\ tickCount = 0
  /\ gpc = "idle"
  /\ cmd = 0
  /\ oldPos = [x |-> 0, y |-> 0]
  /\ steps = << >>
  /\ updates = 0
  /\ notes = [ceiling |-> [s \in DOMAIN level |-> NoNote],
              floor   |-> [s \in DOMAIN level |-> NoNote]]
  /\ InitThinkers
  /\ fx = NoCalc
  /\ PhysicsIdle
  /\ TickerIdle
  /\ BspIdle

\* doorManager.activateDoor(sectorIndex, type)
ActivateDoor(sectorIndex, type) ==
  LET r == activateDoor(doors, sectors, sectorIndex, type) IN
  /\ gpc = "idle"
  /\ doors' = r.doors
  /\ doorLog' = LogDoorsAfter(r.doors)
  /\ call' = Called("activateDoor", sectorIndex, r.ok)
  /\ UNCHANGED << sectors, platforms, activatedLines, player, platLog, gameVars, histVars, thinkVars, apartVars >>

\* doorManager.updateDoors()
UpdateDoors ==
  LET d == updateDoors(doors, sectors) IN
  /\ gpc = "idle"
  /\ doors' = d.doors
  /\ sectors' = d.sectors
  /\ doorLog' = TockDoors(doorLog, doors)
  /\ call' = Called("updateDoors", 0, TRUE)
  /\ updates' = Min(updates + 1, MaxUpdates)
  /\ notes' = [notes EXCEPT !.ceiling = NotesOf(doors, CeilingOf, d.notified)]
  /\ UNCHANGED << platforms, activatedLines, player, platLog, gameVars, thinkVars, apartVars >>

\* platformManager.activatePlatform(sectorIndex, type)
ActivatePlatform(sectorIndex, type) ==
  LET r == activatePlatform(platforms, sectors, sectorIndex, type, PlatDefaultSpeed) IN
  /\ gpc = "idle"
  /\ platforms' = r.platforms
  /\ platLog' = LogPlatformsAfter(r.platforms)
  /\ call' = Called("activatePlatform", sectorIndex, r.ok)
  /\ UNCHANGED << sectors, doors, activatedLines, player, doorLog, gameVars, histVars, thinkVars, apartVars >>

\* platformManager.updatePlatforms()
UpdatePlatforms ==
  LET p == updatePlatforms(platforms, sectors) IN
  /\ gpc = "idle"
  /\ platforms' = p.platforms
  /\ sectors' = p.sectors
  /\ platLog' = Tock(platLog)
  /\ call' = Called("updatePlatforms", 0, TRUE)
  /\ updates' = Min(updates + 1, MaxUpdates)
  /\ notes' = [notes EXCEPT !.floor = NotesOf(platforms, FloorOf, p.notified)]
  /\ UNCHANGED << doors, activatedLines, player, doorLog, gameVars, thinkVars, apartVars >>

\* triggerSystem.useLine(player, lineIndex), called between two ticks
UseLine(lineIndex) ==
  LET r == useLine(World, sectors, player.x, player.y, lineIndex) IN
  /\ gpc = "idle"
  /\ player.present
  /\ doors' = r.w.doors
  /\ platforms' = r.w.platforms
  /\ activatedLines' = r.w.activated
  /\ doorLog' = LogDoorsAfter(r.w.doors)
  /\ platLog' = LogPlatformsAfter(r.w.platforms)
  /\ call' = Called("useLine", lineIndex, r.ok)
  /\ UNCHANGED << sectors, player, gameVars, histVars, thinkVars, apartVars >>

\* ---- gameTick(tick), statement by statement.  The browser runs one
\* ---- callback at a time: nothing else runs until gameTick is "idle" again
\* the statements in another order: walk triggers after the sector machines
NextStepTriggersLast(pc) ==
  CASE pc = "input"     -> "movement"
    [] pc = "movement"  -> "thinkers"
    [] pc = "thinkers"  -> "doors"
    [] pc = "doors"     -> "platforms"
    [] pc = "platforms" -> "triggers"
    [] OTHER            -> "idle"

\* the statement that follows statement pc in gameTick
NextStep(pc) ==
  CASE pc = "input"     -> "movement"
    [] pc = "movement"  -> "triggers"
    [] pc = "triggers"  -> "thinkers"
    [] pc = "thinkers"  -> "doors"
    [] pc = "doors"     -> "platforms"
    [] OTHER            -> "idle"

\* the forward / backward commands buildTicCmd can sample
Cmds == {-1, 0, 1}

\* movePlayer .. applyZMomentum along the corridor: a step of 64 units that
\* is committed when the corridor continues there and blocked otherwise
movePlayerX(x, c) == IF (x + 64 * c) \in PlayerXs THEN x + 64 * c ELSE x

\* this.tickCount++; return if there is no player; save oldX, oldY
GT_Begin ==
  /\ gpc = "idle"
  /\ tickCount < MaxGameTicks
  /\ tickCount' = tickCount + 1
  /\ steps' = << >>
  /\ IF player.present
       THEN gpc' = "input" /\ oldPos' = [x |-> player.x, y |-> player.y]
       ELSE gpc' = "idle" /\ oldPos' = oldPos
  /\ call' = Called("gameTick", tickCount, player.present)
  /\ UNCHANGED << sectors, doors, platforms, activatedLines, player, doorLog,
                  platLog, cmd, histVars, thinkVars, apartVars >>

\* const cmd = this.inputManager.buildTicCmd()
GT_Input ==
  /\ gpc = "input"
  /\ \E c \in Cmds : cmd' = c
  /\ steps' = Append(steps, "input")
  /\ gpc' = NextStep(gpc)
  /\ UNCHANGED << machVars, tickCount, oldPos, histVars, thinkVars, apartVars >>

\* movePlayer, applyFriction, applyGravity, applyCollision, applyZMomentum
GT_Move ==
  /\ gpc = "movement"
  /\ player' = [player EXCEPT !.x = movePlayerX(player.x, cmd)]
  /\ steps' = Append(steps, "movement")
  /\ gpc' = NextStep(gpc)
  /\ UNCHANGED << sectors, doors, platforms, activatedLines, call, doorLog,
                  platLog, tickCount, cmd, oldPos, histVars, thinkVars, apartVars >>

\* this.triggerSystem.checkWalkTriggers(this.playerMobj, oldX, oldY)
GT_Triggers ==
  LET w == checkWalkTriggers(World, sectors, oldPos.x, oldPos.y, player.x, player.y) IN
  /\ gpc = "triggers"
  /\ doors' = w.doors
  /\ platforms' = w.platforms
  /\ activatedLines' = w.activated
  /\ doorLog' = LogDoorsAfter(w.doors)
  /\ platLog' = LogPlatformsAfter(w.platforms)
  /\ steps' = Append(steps, "triggers")
  /\ gpc' = NextStep(gpc)
  /\ UNCHANGED << sectors, player, call, tickCount, cmd, oldPos, histVars,
                  thinkVars, apartVars >>

\* this.thinkerManager.runThinkers(): the game registers no thinker, the
\* pass is over an empty list
GT_Thinkers ==
  /\ gpc = "thinkers"
  /\ tm.head = 0
  /\ steps' = Append(steps, "thinkers")
  /\ gpc' = NextStep(gpc)
  /\ UNCHANGED << machVars, tickCount, cmd, oldPos, histVars, thinkVars, apartVars >>

\* this.doorManager.updateDoors()
GT_Doors ==
  LET d == updateDoors(doors, sectors) IN
  /\ gpc = "doors"
  /\ doors' = d.doors
  /\ sectors' = d.sectors
  /\ doorLog' = TockDoors(doorLog, doors)
  /\ steps' = Append(steps, "doors")
  /\ gpc' = NextStep(gpc)
  /\ notes' = [notes EXCEPT !.ceiling = NotesOf(doors, CeilingOf, d.notified)]
  /\ UNCHANGED << platforms, activatedLines, player, call, platLog, tickCount,
                  cmd, oldPos, updates, thinkVars, apartVars >>

\* this.platformManager.updatePlatforms()
GT_Platforms ==
  LET p == updatePlatforms(platforms, sectors) IN
  /\ gpc = "platforms"
  /\ platforms' = p.platforms
  /\ sectors' = p.sectors
  /\ platLog' = Tock(platLog)
  /\ steps' = Append(steps, "platforms")
  /\ gpc' = NextStep(gpc)
  /\ notes' = [notes EXCEPT !.floor = NotesOf(platforms, FloorOf, p.notified)]
  /\ UNCHANGED << doors, activatedLines, player, call, doorLog, tickCount,
                  cmd, oldPos, updates, thinkVars, apartVars >>

\* ---- a door manager on a level of one sector
InitDoor ==
  /\ \E level \in Levels(1) : InitLevel(level)
  /\ player = NoPlayer

NextDoor ==
  \/ \E s \in SectorArgs, t \in DoorTypes : ActivateDoor(s, t)
  \/ UpdateDoors

\* ---- a platform manager on a level of one sector
InitPlatform ==
  /\ \E level \in Levels(1) : InitLevel(level)
  /\ player = NoPlayer

NextPlatform ==
  \/ \E s \in SectorArgs, t \in PlatformTypes : ActivatePlatform(s, t)
  \/ UpdatePlatforms

\* ---- both managers on a level of one sector, driven call by call
InitSectors ==
  /\ \E level \in Levels(1) : InitLevel(level)
  /\ player = NoPlayer

NextSectors ==
  \/ \E s \in SectorArgs, t \in DoorTypes : ActivateDoor(s, t)
  \/ \E s \in SectorArgs, t \in PlatformTypes : ActivatePlatform(s, t)
  \/ updates < MaxUpdates /\ UpdateDoors
  \/ updates < MaxUpdates /\ UpdatePlatforms

vars == << machVars, gameVars, histVars, thinkVars, apartVars >>

SpecDoor == InitDoor /\ [][NextDoor]_vars
SpecPlatform == InitPlatform /\ [][NextPlatform]_vars
SpecSectors == InitSectors /\ [][NextSectors]_vars

\* ---- a thinker manager on its own (the level plays no part)
InitThinkerManager ==
  /\ \E level \in Levels(1) : level[0].floorheight = 0 /\ level[0].ceilingheight = 0
                               /\ InitLevel(level)
  /\ player = NoPlayer

SpecThinkers == InitThinkerManager /\ [][NextThinkers]_vars

\* ---- the game: a level of two sectors, ticks and the use key
InitGame ==
  /\ \E level \in Levels(2) : InitLevel(level)
  /\ player \in { NoPlayer, [present |-> TRUE, x |-> 0, y |-> 0] }

NextGame ==
  \/ GT_Begin
  \/ GT_Input
  \/ GT_Move
  \/ GT_Triggers
  \/ GT_Thinkers
  \/ GT_Doors
  \/ GT_Platforms
  \/ \E lineIndex \in LineArgs : UseLine(lineIndex)

SpecGame == InitGame /\ [][NextGame]_vars

\* ---- the fixed-point functions on their own
FixedIdle ==
  /\ sectors = [s \in 0 .. 0 |-> [floorheight |-> 0, ceilingheight |-> 0, tag |-> 1]]
  /\ doors = << >> /\ platforms = << >> /\ activatedLines = {}
  /\ call = Called("new", 0, TRUE)
  /\ doorLog = [s \in 0 .. 0 |-> NeverLogged]
  /\ platLog = [s \in 0 .. 0 |-> NeverLogged]
  /\ tickCount = 0 /\ gpc = "idle" /\ cmd = 0
  /\ oldPos = [x |-> 0, y |-> 0] /\ steps = << >> /\ updates = 0
  /\ notes = [ceiling |-> [s \in 0 .. 0 |-> NoNote], floor |-> [s \in 0 .. 0 |-> NoNote]]
  /\ player = NoPlayer
  /\ InitThinkers

InitFixed ==
  /\ FixedIdle
  /\ PhysicsIdle
  /\ TickerIdle
  /\ BspIdle
  /\ \E a \in FixedOperandsA, b \in FixedOperandsB :
       fx = [a |-> a, b |-> b, op |-> "none", kind |-> "none", value |-> 0]

\* FixedDiv(a, b) is called on the operands
CallFixedDiv ==
  /\ fx.op = "none"
  /\ LET r == FixedDiv(fx.a, fx.b)
     IN  fx' = [fx EXCEPT !.op = "FixedDiv", !.kind = r.kind, !.value = r.value]
  /\ UNCHANGED << machVars, gameVars, histVars, thinkVars, physVars, tickerVars, bspVars >>

\* FixedMul(a, b) is called on the operands
CallFixedMul ==
  /\ fx.op = "none"
  /\ fx' = [fx EXCEPT !.op = "FixedMul", !.kind = "value",
                      !.value = FixedMul(fx.a, fx.b)]
  /\ UNCHANGED << machVars, gameVars, histVars, thinkVars, physVars, tickerVars, bspVars >>

\* FixedToInt(IntToFixed(n)) is evaluated, the first operand taken as the
\* integer n
CallRoundTrip ==
  /\ fx.op = "none"
  /\ fx' = [fx EXCEPT !.op = "roundTrip", !.kind = "value",
                      !.value = FixedToInt(IntToFixedOfInt(fx.a))]
  /\ UNCHANGED << machVars, gameVars, histVars, thinkVars, physVars, tickerVars, bspVars >>

\* FixedToInt(FixedMul(IntToFixed(a), IntToFixed(b))) is evaluated, the
\* operands taken as integers
CallMulInts ==
  /\ fx.op = "none"
  /\ fx' = [fx EXCEPT !.op = "mulInts", !.kind = "value",
                      !.value = FixedToInt(FixedMul(IntToFixedOfInt(fx.a),
                                                    IntToFixedOfInt(fx.b)))]
  /\ UNCHANGED << machVars, gameVars, histVars, thinkVars, physVars, tickerVars, bspVars >>

NextFixed ==
  \/ CallFixedDiv
  \/ CallFixedMul
  \/ CallRoundTrip
  \/ CallMulInts

SpecFixed == InitFixed /\ [][NextFixed]_vars

\* the game loop calls updatePlatforms in every tick, for ever
SpecPlatformFair == SpecPlatform /\ WF_vars(UpdatePlatforms)

\* ========================================================================
\* Claims
\* ========================================================================

\* C1: a door activated at normal speed (2) on a sector whose ceiling starts
\* at its floor has, exactly 64 updateDoors calls later, its ceiling at
\* floor + 128 and is no longer OPENING.
C1_OpenAfter64Ticks ==
  \A s \in DOMAIN sectors :
    (/\ doorLog[s].ticks = 64
     /\ doorLog[s].ceiling = doorLog[s].floor
     /\ DoorSpeed(doorLog[s].type) = 2)
    => /\ sectors[s].ceilingheight = doorLog[s].floor + Units(DoorOpenUnits)
       /\ ~(s \in DOMAIN doors /\ doors[s].state = "OPENING")

\* C7: activating a door (platform) on a sector that already has an active
\* door (platform) returns false and changes neither the machines nor the
\* sector heights.
C7_RejectedActivationChangesNothing ==
  [][ (\/ call'.op = "activateDoor" /\ call'.arg \in DOMAIN doors
       \/ call'.op = "activatePlatform" /\ call'.arg \in DOMAIN platforms)
      => (/\ ~call'.ok
          /\ doors' = doors
          /\ platforms' = platforms
          /\ sectors' = sectors) ]_vars

\* C7 witness: activateDoor was just rejected on a sector whose door has
\* already been updated, with a platform active on the same sector
C7_Witness ==
  /\ call.op = "activateDoor" /\ ~call.ok
  /\ call.arg \in DOMAIN doors
  /\ doorLog[call.arg].ticks >= 1
  /\ call.arg \in DOMAIN platforms

\* C8: a platform of the perpetual kind is still in the active set after
\* every step.
C8_PerpetualStaysActive ==
  [][ \A s \in DOMAIN platforms :
        platforms[s].type = "PERPETUAL_RAISE"
        => (s \in DOMAIN platforms' /\ platforms'[s].type = "PERPETUAL_RAISE") ]_vars

\* C8 witness: a perpetual platform that has gone up, waited and turned
\* around is still active after AgeCap updatePlatforms calls
C8_Witness ==
  \E s \in DOMAIN platforms :
    /\ platforms[s].type = "PERPETUAL_RAISE"
    /\ platforms[s].state = "DOWN"
    /\ platLog[s].ticks = AgeCap

\* C9: a perpetual platform keeps cycling: whenever it is going up it later
\* waits at the high bound, and whenever it is going down it later waits at
\* the low bound.
C9_PerpetualCycles ==
  \A s \in {0} :
    /\ [](( s \in DOMAIN platforms /\ platforms[s].type = "PERPETUAL_RAISE"
            /\ platforms[s].state = "UP")
          => <>( s \in DOMAIN platforms /\ platforms[s].state = "WAITING"
                 /\ sectors[s].floorheight = platforms[s].highHeight ))
    /\ [](( s \in DOMAIN platforms /\ platforms[s].type = "PERPETUAL_RAISE"
            /\ platforms[s].state = "DOWN")
          => <>( s \in DOMAIN platforms /\ platforms[s].state = "WAITING"
                 /\ sectors[s].floorheight = platforms[s].lowHeight ))

\* C10: every platform of a kind other than perpetual is eventually removed
\* from the active set.
C10_SingleShotRemoved ==
  \A s \in {0} :
    []( (s \in DOMAIN platforms /\ platforms[s].type # "PERPETUAL_RAISE")
        => <>(s \notin DOMAIN platforms) )

\* C2: when the behaviours called in a runThinkers pass remove themselves or
\* other registered thinkers (every removal is of a thinker that is still
\* registered), every thinker that was in the list when the pass began and
\* has not been removed is called at most once while the pass runs and
\* exactly once by its end.
C2_SurvivorsVisitedOnce ==
  run.stale = {} =>
    \A h \in run.started \ run.removed :
      /\ Count(run.visited, h) <= 1
      /\ (~run.active /\ run.passes > 0) => Count(run.visited, h) = 1

\* C2 witness: a finished pass over three thinkers in which the first one
\* called was removed, a second one was removed too, and one survived
C2_Witness ==
  /\ ~run.active /\ run.passes > 0
  /\ run.stale = {}
  /\ Cardinality(run.started) >= 3
  /\ Len(run.visited) >= 3
  /\ run.visited[1] \in run.removed
  /\ Cardinality(run.removed \cap run.started) >= 2
  /\ run.started \ run.removed # {}

\* C5: FixedDiv(a, 0) throws for every dividend a; it never returns a value.
C5_ZeroDivisorRaises ==
  (fx.op = "FixedDiv" /\ fx.b = 0) => fx.kind = "throw"

\* C3: the first useLine call on a line with a once-only special, made with
\* the player within use range, returns true.  (The call is the first
\* operation after construction, so it is the first call on that line.)
C3_FirstUseSucceeds ==
  [][ (/\ call.op = "new"
       /\ call'.op = "useLine"
       /\ call'.arg \in DOMAIN Linedefs
       /\ isOnceOnly(Linedefs[call'.arg].special)
       /\ player.present
       /\ isPlayerNearLine(player.x, player.y, call'.arg))
      => call'.ok ]_vars

\* C6: no sector has an active door and an active platform at the same time.
C6_OneMachinePerSector ==
  \A s \in DOMAIN sectors : ~(s \in DOMAIN doors /\ s \in DOMAIN platforms)

NoDoorYet == \A s \in DOMAIN sectors : doorLog[s].ticks = -1
NoPlatformYet == \A s \in DOMAIN sectors : platLog[s].ticks = -1

NextOneKind ==
  \/ NoPlatformYet /\ \E s \in SectorArgs, t \in DoorTypes : ActivateDoor(s, t)
  \/ NoPlatformYet /\ UpdateDoors
  \/ NoDoorYet /\ \E s \in SectorArgs, t \in PlatformTypes : ActivatePlatform(s, t)
  \/ NoDoorYet /\ UpdatePlatforms

SpecOneKind == InitSectors /\ [][NextOneKind]_vars

\* C11: in an update call a door (platform) that was moving, OPENING or
\* CLOSING (UP or DOWN), wrote its sector's height and called the callback
\* exactly once with the sector's new height; one that was not moving wrote
\* nothing and called nothing; a sector without a machine got no call.
C11_CallbackOncePerWrite ==
  \A s \in DOMAIN sectors :
    LET c == notes.ceiling[s]
        f == notes.floor[s]
    IN  /\ IF c.state \in {"OPENING", "CLOSING"}
             THEN c.heights = << sectors[s].ceilingheight >>
             ELSE c.heights = << >>
                  /\ (c.state # "NONE" => sectors[s].ceilingheight = c.before)
        /\ IF f.state \in {"UP", "DOWN"}
             THEN f.heights = << sectors[s].floorheight >>
             ELSE f.heights = << >>
                  /\ (f.state # "NONE" => sectors[s].floorheight = f.before)

\* C11 witness: the last updateDoors call moved a door to its top, away from
\* where the ceiling was, and the callback got that height
C11_Witness ==
  \E s \in DOMAIN doors :
    /\ doors[s].state = "WAITING"
    /\ doors[s].waitTimer = DoorWaitTicks
    /\ notes.ceiling[s].state = "OPENING"
    /\ notes.ceiling[s].before # sectors[s].ceilingheight
    /\ notes.ceiling[s].heights = << doors[s].topHeight >>

\* the members of a set of handles in the order they were added (handles are
\* numbered as they are created)
RECURSIVE InOrderAdded(_)
InOrderAdded(S) ==
  IF S = {} THEN << >>
  ELSE LET h == CHOOSE x \in S : \A y \in S : x <= y
       IN  << h >> \o InOrderAdded(S \ {h})

\* C12: a finished runThinkers pass whose behaviours left the list alone has
\* called every thinker registered at its start exactly once, in the order
\* in which they were added, whatever additions, removals of registered
\* thinkers and clears came before.
C12_EveryThinkerOnceInOrder ==
  (/\ ~run.active /\ run.passes > 0
   /\ ~misused
   /\ run.removed = {} /\ run.added = {})
  => run.visited = InOrderAdded(run.registered)

\* C12 witness: such a pass over two thinkers, the first of which was added
\* after an earlier thinker had been removed
C12_Witness ==
  /\ ~run.active /\ run.passes > 0
  /\ ~misused
  /\ run.removed = {} /\ run.added = {}
  /\ Len(run.visited) = 2
  /\ run.visited[1] > 1
  /\ run.registered = Range(run.visited)

\* ---- the physics of a tick on the map of two rooms: the player starts in
\* ---- the first room, standing on its floor
InitPhysics ==
  /\ FixedIdle
  /\ fx = NoCalc
  /\ TickerIdle
  /\ BspIdle
  /\ \E midFlags \in {ML_TWOSIDED, ML_TWOSIDED + ML_BLOCKING},
        floorB \in {0, Units(MAX_STEP_HEIGHT), Units(32)} :
       mapData = TwoRooms(midFlags, floorB, Units(128))
  /\ mobj = [createPlayerMobj(Units(32), Units(32), mapData.sectors[0].floorheight)
               EXCEPT !.ceilingz = mapData.sectors[0].ceilingheight]
  /\ physLog = [step |-> "new", before |-> NoMobj]

NextPhysics ==
  \/ \E mx \in MomentumUnits, my \in MomentumUnits : SetMomentum(mx, my)
  \/ Gravity({"momentum"})
  \/ Collision
  \/ ZMomentum({"collision"})

SpecPhysics == InitPhysics /\ [][NextPhysics]_vars

\* ---- C13 ----------------------------------------------------------------
\* C13: when applyCollision finds the full move blocked and both the X-only
\* and the Y-only retry blocked, x and y are unchanged and momx and momy are
\* zero afterwards; when an axis-only retry is committed the momentum is what
\* it was.
FullBlocked(b) == ~checkWallCollision(b, b.x + b.momx, b.y + b.momy, mapData)
XOnlyBlocked(b) == ~checkWallCollision(b, b.x + b.momx, b.y, mapData)
YOnlyBlocked(b) == ~checkWallCollision(b, b.x, b.y + b.momy, mapData)

C13_BlockedStopsSlideKeeps ==
  LET b == physLog.before IN
  (physLog.step = "collision" /\ FullBlocked(b))
    => IF XOnlyBlocked(b) /\ YOnlyBlocked(b)
         THEN mobj.x = b.x /\ mobj.y = b.y /\ mobj.momx = 0 /\ mobj.momy = 0
         ELSE mobj.momx = b.momx /\ mobj.momy = b.momy

\* a diagonal move into a corner: everything is blocked and the momentum,
\* non-zero on both axes before, is zero after
C13_Witness ==
  LET b == physLog.before IN
  /\ physLog.step = "collision"
  /\ b.momx # 0 /\ b.momy # 0
  /\ FullBlocked(b) /\ XOnlyBlocked(b) /\ YOnlyBlocked(b)
  /\ mobj.x = b.x /\ mobj.y = b.y /\ mobj.momx = 0 /\ mobj.momy = 0

\* ---- C14 ----------------------------------------------------------------
\* the entity's bounding circle intersects no blocking linedef where it is
StandsClear(m) == checkWallCollision(m, m.x, m.y, mapData)

\* C14: an entity whose circle intersects no blocking linedef before
\* applyCollision intersects none after it, wherever it is left: at the full
\* move, at an X-only or Y-only move, or where it was.
C14_StaysClearOfWalls ==
  (physLog.step = "collision" /\ StandsClear(physLog.before)) => StandsClear(mobj)

\* a blocked diagonal move of which the X part alone was committed
C14_Witness ==
  LET b == physLog.before IN
  /\ physLog.step = "collision"
  /\ StandsClear(b) /\ FullBlocked(b)
  /\ b.momx # 0 /\ b.momy # 0
  /\ mobj.x = b.x + b.momx /\ mobj.y = b.y
  /\ StandsClear(mobj)

\* ---- C15 ----------------------------------------------------------------
\* the floor of the sector the entity stands in
FloorUnder(m) ==
  LET sectorIdx == findSectorAtPoint(Whole(FixedToFloat(m.x)),
                                     Whole(FixedToFloat(m.y)), mapData)
  IN  IF sectorIdx >= 0 THEN FloatToFixed(mapData.sectors[sectorIdx].floorheight)
      ELSE m.floorz

\* C15: applyCollision never leaves the entity in a sector whose floor is
\* more than the maximum step height (24 units) above the z it had before
\* the move: such a move, full or axis-only, is reverted.
C15_NoStepAboveMax ==
  physLog.step = "collision"
    => FixedToFloat(FloorUnder(mobj)) - FixedToFloat(physLog.before.z)
         <= Units(MAX_STEP_HEIGHT)

\* ---- the vertical part of the physics on its own: applyGravity and
\* ---- applyZMomentum tick after tick, from a choice of z, momz, floorz and
\* ---- ceilingz (in units), some of them too low to stand in
InitVertical ==
  /\ FixedIdle
  /\ fx = NoCalc
  /\ TickerIdle
  /\ BspIdle
  /\ mapData = NoMap
  /\ \E z \in {-8, 0, 3, 8, 10, 20}, momz \in {-20, -3, 0, 4},
        floorz \in {0, 8}, ceilingz \in {40, 64, 72}, nogravity \in BOOLEAN :
       mobj = [createPlayerMobj(Units(32), Units(32), Units(z))
                 EXCEPT !.momz = Units(momz), !.floorz = Units(floorz),
                        !.ceilingz = Units(ceilingz), !.nogravity = nogravity]
  /\ physLog = [step |-> "new", before |-> NoMobj]

NextVertical ==
  \/ Gravity({"new", "zmomentum"})
  \/ ZMomentum({"gravity"})

SpecVertical == InitVertical /\ [][NextVertical]_vars

\* the two clamps of applyZMomentum, as applied to the entity b
FloorClamped(b) == b.z + b.momz < b.floorz
CeilingClamped(b) ==
  (IF FloorClamped(b) THEN b.floorz ELSE b.z + b.momz) + b.height > b.ceilingz
\* the entity fits between floor and ceiling
HasRoom(m) == m.ceilingz - m.height >= m.floorz

\* ---- C16 ----------------------------------------------------------------
\* C16 as stated: after applyZMomentum z lies in [floor, ceiling - height]
\* for every prior z, momz, floor and ceiling, and momz is zero whenever a
\* clamp was applied.
C16_AlwaysWithinInterval ==
  physLog.step = "zmomentum"
    => /\ mobj.floorz <= mobj.z
       /\ mobj.z <= mobj.ceilingz - mobj.height
       /\ (FloorClamped(physLog.before) \/ CeilingClamped(physLog.before))
            => mobj.momz = 0

\* C16 amended: after applyZMomentum z lies in [floor, ceiling - height]
\* when that interval is not empty; when ceiling - height is below the floor
\* the ceiling clamp, applied last, leaves z = ceiling - height.  momz is
\* zero whenever a clamp was applied and is unchanged otherwise.
C16_WithinIntervalIfRoom ==
  LET b == physLog.before IN
  physLog.step = "zmomentum"
    => /\ IF HasRoom(mobj)
            THEN mobj.floorz <= mobj.z /\ mobj.z <= mobj.ceilingz - mobj.height
            ELSE mobj.z = mobj.ceilingz - mobj.height
       /\ IF FloorClamped(b) \/ CeilingClamped(b)
            THEN mobj.momz = 0
            ELSE mobj.momz = b.momz /\ mobj.z = b.z + b.momz

\* a fall through the floor of a place too low to stand in: both clamps
\* were applied and the entity is left below the floor
C16_Witness ==
  LET b == physLog.before IN
  /\ physLog.step = "zmomentum"
  /\ ~HasRoom(b)
  /\ FloorClamped(b) /\ CeilingClamped(b)
  /\ b.momz # 0
  /\ mobj.z = mobj.ceilingz - mobj.height /\ mobj.z < mobj.floorz
  /\ mobj.momz = 0

\* ---- C17 ----------------------------------------------------------------
\* the entity rests on the floor
AtRest(m) == m.z = m.floorz /\ m.momz = 0
\* the entity is above the floor and gravity acts on it
Airborne(m) == m.z > m.floorz /\ ~m.nogravity

\* C17 as stated: an airborne entity lands at z = floor with momz 0 in the
\* tick in which adding momz would take it below the floor, and an entity
\* at rest on the floor stays at rest in the following ticks.
C17_LandsOnFloor ==
  /\ [](LET b == physLog.before IN
        (physLog.step = "zmomentum" /\ Airborne(b) /\ b.z + b.momz < b.floorz)
          => AtRest(mobj))
  /\ [][AtRest(mobj) => AtRest(mobj')]_vars

\* C17 amended: the same where the entity fits between floor and ceiling
\* (ceiling - height >= floor); where it does not, the ceiling clamp leaves
\* it at ceiling - height, below the floor.
C17_LandsOnFloorIfRoom ==
  /\ [](LET b == physLog.before IN
        (physLog.step = "zmomentum" /\ Airborne(b) /\ b.z + b.momz < b.floorz)
          => IF HasRoom(b) THEN AtRest(mobj)
             ELSE mobj.z = mobj.ceilingz - mobj.height /\ mobj.momz = 0)
  /\ [][(AtRest(mobj) /\ HasRoom(mobj)) => AtRest(mobj')]_vars

\* a landing: the entity was above the floor, gravity had made its momentum
\* more negative, and the move would have ended below the floor
C17_Witness ==
  LET b == physLog.before IN
  /\ physLog.step = "zmomentum"
  /\ Airborne(b) /\ HasRoom(b)
  /\ b.momz < 0 - GRAVITY
  /\ b.z + b.momz < b.floorz
  /\ AtRest(mobj)

\* ---- the ticker on its own, driven by the host: start(), stop(), the
\* ---- clock, and the frame callbacks it requested
InitTicker ==
  /\ FixedIdle
  /\ fx = NoCalc
  /\ PhysicsIdle
  /\ TickerIdle
  /\ BspIdle

SpecTicker == InitTicker /\ [][NextTicker]_vars

\* ---- C18 ----------------------------------------------------------------
\* C18: the tick function is invoked only while the ticker is running: once
\* stop() has been called, also from inside the tick function with catch-up
\* ticks still owed in the frame, it is not invoked again before a start().
C18_NoTickWhileStopped ==
  [][test'.tickCount # test.tickCount => ticker.running]_vars

\* ---- C19 ----------------------------------------------------------------
\* C19: after every frame callback the accumulator holds at most maxTicks
\* tick durations; a callback that would leave more after its capped ticks
\* resets the accumulator to zero.
C19_AccumulatorBounded ==
  /\ [](~ticker.inFrame => ticker.accumulator <= maxTicks * TICK_DURATION)
  /\ [][(ticker.inFrame /\ ~ticker'.inFrame
           /\ ticker.accumulator > maxTicks * TICK_DURATION)
          => ticker'.accumulator = 0]_vars

\* a frame after a host stall: it ran maxTicks ticks and reset the rest
C19_Witness ==
  /\ ~ticker.inFrame
  /\ tickLog.reset
  /\ ticker.ticksThisFrame = maxTicks
  /\ ticker.accumulator = 0

\* ---- C20 ----------------------------------------------------------------
\* C20: a frame callback of a running ticker executes
\* min(maxTicks, floor(accumulator / TICK_DURATION)) ticks, the accumulator
\* taken after the elapsed time was added; currentTick grows by that number,
\* and the tick function has received 0, 1, 2, ... since start().
C20_TicksPerFrame ==
  /\ ~ticker.inFrame
       => /\ ticker.ticksThisFrame = tickLog.owed
          /\ ticker.currentTick = tickLog.startTick + tickLog.owed
  /\ Len(tickLog.calls) = ticker.currentTick
  /\ \A i \in 1 .. Len(tickLog.calls) : tickLog.calls[i] = i - 1

\* a frame that ran the capped number of ticks, more time being owed, in a
\* run that had ticked before
C20_Witness ==
  /\ ~ticker.inFrame
  /\ tickLog.owed = maxTicks
  /\ ticker.ticksThisFrame = maxTicks
  /\ ticker.accumulator >= TICK_DURATION
  /\ tickLog.startTick > 0
  /\ ticker.currentTick = tickLog.startTick + maxTicks

\* ---- numbers of up to 64 bits as 8 limbs, for stating the exact results
\* x <= y
LimbsLE(x, y) ==
  \/ x = y
  \/ \E k \in 1 .. 8 : x[k] < y[k] /\ \A j \in (k + 1) .. 8 : x[j] = y[j]

\* the limbs k .. 8 of x + y
RECURSIVE AddFrom(_, _, _, _)
AddFrom(x, y, k, carry) ==
  IF k = 9 THEN << >>
  ELSE LET c == x[k] + y[k] + carry
       IN  << c % 256 >> \o AddFrom(x, y, k + 1, c \div 256)

\* |a| * |b|
AbsProduct(a, b) == MulFrom(AbsLimbs(a), AbsLimbs(b), 0, 0)
\* |a| and |a| * 65536
Widened(a) == AbsLimbs(a) \o << 0, 0, 0, 0 >>
Scaled(a) == << 0, 0 >> \o AbsLimbs(a) \o << 0, 0 >>
\* 2^31 * 65536: a product of this magnitude, divided by 65536, is 2^31
TwoTo47 == << 0, 0, 0, 0, 0, 128, 0, 0 >>

\* ---- C21 ----------------------------------------------------------------
\* the product a * b / 65536, its fraction dropped, is outside the signed
\* 32-bit range
MulOverflows(a, b) ==
  IF (a < 0) # (b < 0)
    THEN LimbsLE(<< 0, 0, 1, 0, 0, 128, 0, 0 >>, AbsProduct(a, b))
    ELSE LimbsLE(TwoTo47, AbsProduct(a, b))

\* C21: when the result of a fixed-point multiply does not fit in a signed
\* 32-bit value FixedMul returns INT32_MAX for a positive result and
\* INT32_MIN for a negative one, never a wrapped-around value.
C21_MulSaturates ==
  (fx.op = "FixedMul" /\ MulOverflows(fx.a, fx.b))
    => fx.value = (IF (fx.a < 0) # (fx.b < 0) THEN INT32_MIN ELSE INT32_MAX)

\* ---- C22 ----------------------------------------------------------------
\* |a| >> 14 >= |b|, on the magnitudes as numbers
ShiftedMagnitudeCovers(a, b) ==
  /\ b # INT32_MIN
  /\ (IF a = INT32_MIN THEN 131072 ELSE Abs(a) \div 16384) >= Abs(b)

\* v is (a * 65536) / b with the fraction dropped: it has the sign of the
\* quotient and |v| * |b| <= |a| * 65536 < |v| * |b| + |b|
IsScaledQuotient(a, b, v) ==
  /\ v # 0 => ((v < 0) <=> ((a < 0) # (b < 0)))
  /\ LimbsLE(AbsProduct(v, b), Scaled(a))
  /\ ~LimbsLE(AddFrom(AbsProduct(v, b), Widened(b), 1, 0), Scaled(a))

\* C22: for non-zero b with (|a| >> 14) >= |b| FixedDiv returns INT32_MIN
\* when a and b have opposite signs and INT32_MAX otherwise; for all other
\* operands it returns the scaled quotient (a * 65536) / b.
C22_DivSaturatesOrDivides ==
  (fx.op = "FixedDiv" /\ fx.b # 0)
    => /\ fx.kind = "value"
       /\ IF ShiftedMagnitudeCovers(fx.a, fx.b)
            THEN fx.value = (IF (fx.a < 0) # (fx.b < 0) THEN INT32_MIN ELSE INT32_MAX)
            ELSE IsScaledQuotient(fx.a, fx.b, fx.value)

\* ---- C23 ----------------------------------------------------------------
\* C23 as stated: FixedToInt(IntToFixed(n)) = n for all integers n.
C23_RoundTripAll ==
  fx.op = "roundTrip" => fx.value = fx.a

\* C23 amended: FixedToInt(IntToFixed(n)) = n for -32768 <= n <= 32767;
\* outside that range the result is n wrapped into it (n modulo 65536).
C23_RoundTripIn16Bits ==
  fx.op = "roundTrip"
    => IF 0 - 32768 <= fx.a /\ fx.a <= 32767
         THEN fx.value = fx.a
         ELSE fx.value = (((fx.a % FRACUNIT) + Half) % FRACUNIT) - Half

\* a negative integer of the range, returned as it was
C23_Witness ==
  /\ fx.op = "roundTrip"
  /\ fx.a < 0 - 1 /\ fx.a >= 0 - 32768
  /\ fx.value = fx.a

\* ---- C24 ----------------------------------------------------------------
\* a, b and a * b are within the integers a Fixed holds
ProductIn16Bits(a, b) ==
  /\ 0 - 32768 <= a /\ a <= 32767
  /\ 0 - 32768 <= b /\ b <= 32767
  /\ 0 - 32768 <= a * b /\ a * b <= 32767

\* C24: for integers a and b whose product does not overflow,
\* FixedToInt(FixedMul(IntToFixed(a), IntToFixed(b))) = a * b, negative
\* operands included.
C24_MulOfIntegers ==
  (fx.op = "mulInts" /\ ProductIn16Bits(fx.a, fx.b)) => fx.value = fx.a * fx.b

\* -3 times 4
C24_Witness ==
  /\ fx.op = "mulInts"
  /\ ProductIn16Bits(fx.a, fx.b)
  /\ fx.a < 0 - 1 /\ fx.b > 1
  /\ fx.value = fx.a * fx.b

\* ------------------------------------------------------------------------
\* The BSP traversal on small node arrays
\* ------------------------------------------------------------------------

\* partition lines through the origin: along the x axis and along the y axis
Partitions ==
  { [x |-> 0, y |-> 0, dx |-> 1, dy |-> 0],
    [x |-> 0, y |-> 0, dx |-> 0, dy |-> 1] }

\* query points: one in each of three quadrants, and one on both lines
Points == { << -1, -1 >>, << 1, -1 >>, << 0, 0 >>, << 1, 1 >> }

\* the children of a tree of n nodes: every node but the root, and n + 1 leaves
TreeItems(n) == (0 .. (n - 2)) \cup { NF_SUBSECTOR + i : i \in 0 .. n }

\* slots 2k+1 and 2k+2 hold the children of node k; every item is the child
\* of one node, and a node comes after the nodes below it (the root is last)
TreeSlots(n) ==
  { s \in [1 .. (2 * n) -> TreeItems(n)] :
      /\ \A i, j \in 1 .. (2 * n) : s[i] = s[j] => i = j
      /\ \A i \in 1 .. (2 * n) : IsSubsector(s[i]) \/ s[i] < (i - 1) \div 2 }

WellFormedTrees(n) ==
  { [k \in 1 .. n |-> [x |-> part[k].x, y |-> part[k].y,
                       dx |-> part[k].dx, dy |-> part[k].dy,
                       children |-> << s[2 * k - 1], s[2 * k] >>]] :
      s \in TreeSlots(n), part \in [1 .. n -> Partitions] }

\* child indices of a node array of n nodes over n subsectors: the valid
\* ones, a node index past the end and a subsector index past the end
ChildCodes(n) == (0 .. n) \cup { NF_SUBSECTOR + i : i \in 0 .. n }

NodeArrays(n) ==
  [1 .. n -> { [x |-> 0, y |-> 0, dx |-> 1, dy |-> 0, children |-> << c0, c1 >>] :
                 c0 \in ChildCodes(n), c1 \in ChildCodes(n) }]

BspOnly ==
  /\ FixedIdle
  /\ fx = NoCalc
  /\ PhysicsIdle
  /\ TickerIdle

InitBsp ==
  /\ BspOnly
  /\ lookup = NoLookup
  /\ \E n \in 0 .. MaxNodes : \E tree \in WellFormedTrees(n), p \in Points :
       bsp = [NoBsp EXCEPT !.nodes = tree, !.numSubsectors = n + 1,
                           !.x = p[1], !.y = p[2]]

SpecBsp == InitBsp /\ [][NextBsp]_vars

InitBspMalformed ==
  /\ BspOnly
  /\ lookup = NoLookup
  /\ \E n \in 1 .. MaxNodes : \E nodes \in NodeArrays(n), p \in Points :
       bsp = [NoBsp EXCEPT !.nodes = nodes, !.numSubsectors = n,
                           !.x = p[1], !.y = p[2]]

SpecBspMalformed == InitBspMalformed /\ [][NextBsp]_vars

\* the leaf ids of the tree; a map without nodes has its subsectors for leaves
Leaves(b) ==
  IF Len(b.nodes) = 0 THEN 0 .. (b.numSubsectors - 1)
  ELSE { c - NF_SUBSECTOR :
           c \in { b.nodes[k].children[i] : k \in DOMAIN b.nodes, i \in 1 .. 2 }
                   \cap { NF_SUBSECTOR + i : i \in 0 .. Len(b.nodes) } }

\* ---- C25 ----------------------------------------------------------------
\* C25: on a well-formed tree of N leaves, for any query point, no leaf is
\* reached twice, and when getVisibleSubsectors returns every one of the N
\* leaves has been reached once and the set returned is the set of the
\* N leaf ids.
C25_EveryLeafOnce ==
  /\ bsp.status # "RangeError"
  /\ \A l \in Leaves(bsp) : Count(bsp.reached, l) <= 1
  /\ bsp.status = "returned"
       => /\ Range(bsp.reached) = Leaves(bsp)
          /\ Len(bsp.reached) = Cardinality(Leaves(bsp))
          /\ Range(bsp.visible) = Leaves(bsp)

\* a tree of two nodes and three leaves has been traversed from a point on
\* both partition lines
C25_Witness ==
  /\ bsp.status = "returned"
  /\ Len(bsp.nodes) = 2
  /\ Len(bsp.reached) = 3
  /\ bsp.x = 0 /\ bsp.y = 0

\* ---- C26 ----------------------------------------------------------------
RECURSIVE LeavesUnder(_, _)
LeavesUnder(nodes, c) ==
  IF IsSubsector(c) THEN { c - NF_SUBSECTOR }
  ELSE LeavesUnder(nodes, nodes[c + 1].children[1])
         \cup LeavesUnder(nodes, nodes[c + 1].children[2])

Position(seq, v) == CHOOSE i \in DOMAIN seq : seq[i] = v

\* the child on the query point's side of the partition line, by the sign of
\* the cross product: 1 for children[0], 2 for children[1]
NearChild(b, node) ==
  IF (b.x - node.x) * node.dy - (b.y - node.y) * node.dx > 0 THEN 2 ELSE 1

LookupMaps ==
  { [subsectors |-> << [numsegs |-> ns, firstseg |-> fs] >>,
     segs       |-> << [linedef |-> ld, side |-> sd] >>,
     linedefs   |-> << [sidenum |-> << s0, s1 >>] >>,
     sidedefs   |-> << [sector |-> sec] >>] :
      ns \in 0 .. 2, fs \in 0 .. 1, ld \in -1 .. 1, sd \in 0 .. 1,
      s0 \in -1 .. 1, s1 \in -1 .. 1, sec \in {0, 5} }

InitLookup ==
  /\ BspOnly
  /\ bsp = NoBsp
  /\ \E g \in LookupMaps, index \in -1 .. 1 :
       lookup = [subsectors |-> g.subsectors, segs |-> g.segs,
                 linedefs |-> g.linedefs, sidedefs |-> g.sidedefs,
                 index |-> index, kind |-> "none", value |-> 0]

SpecLookup == InitLookup /\ [][GetSubsectorSector]_vars

\* the subsector exists and has a first seg
HasFirstSeg(g) ==
  /\ 0 <= g.index /\ g.index < Len(g.subsectors)
  /\ g.subsectors[g.index + 1].numsegs > 0

\* the first seg's index is outside the seg array
FirstSegOutside(g) ==
  /\ HasFirstSeg(g)
  /\ g.subsectors[g.index + 1].firstseg >= Len(g.segs)

\* the sidedef the first seg leads to, or -1 when a reference on the way
\* leads nowhere
OwnerSidedef(g) ==
  IF ~ HasFirstSeg(g) \/ FirstSegOutside(g) THEN -1
  ELSE LET seg == g.segs[g.subsectors[g.index + 1].firstseg + 1] IN
       IF seg.linedef < 0 \/ seg.linedef >= Len(g.linedefs) THEN -1
       ELSE LET sidenum == g.linedefs[seg.linedef + 1].sidenum[seg.side + 1]
            IN  IF sidenum < 0 \/ sidenum >= Len(g.sidedefs) THEN -1
                ELSE sidenum

\* C27: for every subsector index and every geometry getSubsectorSector
\* returns and does not throw; it returns the sector of the sidedef the
\* first seg leads to, and -1 when the subsector has no segs, when its
\* first seg index is outside the seg array, when the seg names a missing
\* linedef or when the side points outside the sidedef array.
C27_SectorOrMinusOne ==
  lookup.kind # "none"
    => /\ lookup.kind = "value"
       /\ lookup.value = IF OwnerSidedef(lookup) = -1 THEN -1
                         ELSE lookup.sidedefs[OwnerSidedef(lookup) + 1].sector

\* ---- C28 ----------------------------------------------------------------
\* C28: on every node array, those included whose child indices are out of
\* range or lead back to an ancestor, the traversal never exhausts the call
\* stack: getVisibleSubsectors returns without a fault.
C28_NoFault == bsp.status # "RangeError"

\* ------------------------------------------------------------------------
\* The life of a door
\* ------------------------------------------------------------------------
ActiveStates == {"OPENING", "WAITING", "CLOSING"}

\* the changes of state of a door that stays in the map
DoorEdges ==
  { << "OPENING", "WAITING" >>, << "WAITING", "CLOSING" >> }

\* ---- C29 ----------------------------------------------------------------
\* C29: a door in the active set is OPENING, WAITING or CLOSING; while it
\* stays in the set its state changes only from OPENING to WAITING and from
\* WAITING to CLOSING, and a door of the stay-open kind never goes to
\* WAITING; it leaves the set only on the tick that makes it OPEN, which
\* happens to an OPENING door of the stay-open kind only, or on the tick
\* that makes a CLOSING door CLOSED.
C29_DoorEdges ==
  /\ [](\A s \in DOMAIN doors : doors[s].state \in ActiveStates)
  /\ [][\A s \in DOMAIN doors :
          IF s \in DOMAIN doors'
            THEN \/ doors'[s].state = doors[s].state
                 \/ /\ << doors[s].state, doors'[s].state >> \in DoorEdges
                    /\ doors'[s].state = "WAITING" => doors[s].type # "OPEN_STAY"
            ELSE LET after == updateDoor(doors[s], sectors[s]).door.state IN
                 \/ /\ doors[s].state = "OPENING" /\ after = "OPEN"
                    /\ doors[s].type = "OPEN_STAY"
                 \/ doors[s].state = "CLOSING" /\ after = "CLOSED"]_vars

\* a door has opened, waited and closed, and the tick that closed it has
\* removed it from the set
C29_Witness ==
  /\ doors = << >>
  /\ call.op = "updateDoors"
  /\ \E s \in DOMAIN sectors :
       /\ doorLog[s].waited = DoorWaitTicks
       /\ sectors[s].ceilingheight = sectors[s].floorheight

\* ---- C30 ----------------------------------------------------------------
\* C30: a door in WAITING has begun fewer than 150 ticks there, its timer
\* is 150 less the ticks it has waited and the ceiling is at the open
\* height; every updateDoors tick on a WAITING door lowers the timer by one
\* and leaves the ceiling alone; the door is WAITING after each of the
\* first 149 ticks and CLOSING after the 150th, and no door is CLOSING
\* that has not waited 150 ticks.
C30_WaitsFixedTicks ==
  /\ [](\A s \in DOMAIN doors :
          /\ doors[s].state = "WAITING"
               => /\ doorLog[s].waited < DoorWaitTicks
                  /\ doors[s].waitTimer = DoorWaitTicks - doorLog[s].waited
                  /\ sectors[s].ceilingheight = FixedToFloat(doors[s].topHeight)
          /\ doors[s].state = "CLOSING" => doorLog[s].waited = DoorWaitTicks)
  /\ [][\A s \in DOMAIN doors :
          (doors[s].state = "WAITING" /\ call'.op = "updateDoors")
            => /\ s \in DOMAIN doors'
               /\ doorLog'[s].waited = doorLog[s].waited + 1
               /\ doors'[s].waitTimer = doors[s].waitTimer - 1
               /\ sectors'[s].ceilingheight = sectors[s].ceilingheight
               /\ doors'[s].state = IF doorLog'[s].waited = DoorWaitTicks
                                      THEN "CLOSING" ELSE "WAITING"]_vars

\* the 150th tick has just been made: the door is CLOSING and its ceiling
\* is still at the open height
C30_Witness ==
  \E s \in DOMAIN doors :
    /\ doors[s].state = "CLOSING"
    /\ doorLog[s].waited = DoorWaitTicks
    /\ sectors[s].ceilingheight = FixedToFloat(doors[s].topHeight)
    /\ doors[s].waitTimer = 0

\* ------------------------------------------------------------------------
\* The once-only lines
\* ------------------------------------------------------------------------
\* the sectors a line's tag names
TaggedSectors(l) ==
  { s \in DOMAIN sectors : Linedefs[l].tag # 0 /\ sectors[s].tag = Linedefs[l].tag }

\* the machines a line's special starts: doors, or platforms
StartsDoors(l) == Linedefs[l].special \in {1, 2, 3, 4, 42, 61, 63}

\* line l is crossed by the move that the walk triggers are about to check
CrossedNow(l) ==
  /\ gpc = "triggers"
  /\ Linedefs[l].special # 0
  /\ lineCrossed(oldPos.x, oldPos.y, player.x, player.y, l)

\* ---- C31 ----------------------------------------------------------------
\* C31: a line enters the activated-line set only in a step in which a
\* sector of its tag accepted the activation (a machine of the line's kind
\* appears in it); a once-only line that is crossed while it is not in the
\* set stays out of it when every tagged sector rejects (or the tag is 0),
\* and enters it when a tagged sector is free.
C31_RecordedOnlyOnSuccess ==
  [][\A l \in DOMAIN Linedefs :
       LET accepted == IF StartsDoors(l)
                         THEN TaggedSectors(l) \cap ((DOMAIN doors') \ (DOMAIN doors))
                         ELSE TaggedSectors(l) \cap ((DOMAIN platforms') \ (DOMAIN platforms))
           free == IF StartsDoors(l)
                     THEN TaggedSectors(l) \ (DOMAIN doors)
                     ELSE TaggedSectors(l) \ (DOMAIN platforms)
       IN  /\ l \in activatedLines' \ activatedLines => accepted # {}
           /\ (CrossedNow(l) /\ isOnceOnly(Linedefs[l].special) /\ l \notin activatedLines)
                => (l \in activatedLines' <=> free # {})]_vars

\* the once-only door line 1 was crossed while its door was already active:
\* the walk triggers have run and the line is not recorded
C31_Witness ==
  /\ steps # << >> /\ steps[Len(steps)] = "triggers"
  /\ lineCrossed(oldPos.x, oldPos.y, player.x, player.y, 1)
  /\ TaggedSectors(1) # {}
  /\ TaggedSectors(1) \subseteq DOMAIN doors
  /\ 1 \notin activatedLines

\* ---- C32 ----------------------------------------------------------------
\* the lines whose special is of a walk-once kind
OnceOnlyLines == { l \in DOMAIN Linedefs : Linedefs[l].special \in {2, 3, 4, 10} }

\* C32: the activated-line set never loses a member, and a once-only line
\* is activated with success (a sector of its tag accepts) only while it is
\* not in the set and is in the set afterwards: over any sequence of use
\* and walk-crossing events it succeeds at most once.
C32_OnceOnlyAtMostOnce ==
  [][/\ activatedLines \subseteq activatedLines'
     /\ \A l \in OnceOnlyLines :
          LET accepted == IF StartsDoors(l)
                            THEN TaggedSectors(l) \cap ((DOMAIN doors') \ (DOMAIN doors))
                            ELSE TaggedSectors(l) \cap ((DOMAIN platforms') \ (DOMAIN platforms))
          IN  (CrossedNow(l) /\ accepted # {})
                => l \notin activatedLines /\ l \in activatedLines']_vars

\* the once-only door line 1 has fired, its door is gone, and the line has
\* been crossed a second time: no door was started
C32_Witness ==
  /\ steps # << >> /\ steps[Len(steps)] = "triggers"
  /\ lineCrossed(oldPos.x, oldPos.y, player.x, player.y, 1)
  /\ 1 \in activatedLines
  /\ TaggedSectors(1) # {}
  /\ TaggedSectors(1) \cap DOMAIN doors = {}

\* ------------------------------------------------------------------------
\* Friction on its own: no thrust, tick after tick
\* ------------------------------------------------------------------------
\* momenta: the extremes of 32 bits, values about the stop speed, one unit
\* of the fraction and a running speed
FrictionMomenta ==
  { INT32_MIN, 0 - Units(16), -4520, -4096, -1, 0, 1, 4095, 4519, 4520,
    Units(16), INT32_MAX }

InitFriction ==
  /\ FixedIdle
  /\ fx = NoCalc
  /\ TickerIdle
  /\ BspIdle
  /\ mapData = NoMap
  /\ \E momx \in FrictionMomenta, momy \in FrictionMomenta, z \in {-1, 0, 1} :
       mobj = [createPlayerMobj(Units(32), Units(32), z)
                 EXCEPT !.momx = momx, !.momy = momy, !.floorz = 0]
  /\ physLog = [step |-> "new", before |-> NoMobj]

\* ENABLED <<Friction>>_vars: a call of applyFriction would change the state
FrictionActs ==
  /\ physLog.step \in {"new", "friction"}
  /\ \/ applyFriction(mobj) # mobj
     \/ physLog # [step |-> "friction", before |-> mobj]

\* the movement code calls applyFriction in every tick: weak fairness of
\* Friction, WF_vars(Friction), with its ENABLED written as FrictionActs
SpecFriction ==
  /\ InitFriction
  /\ [][Friction]_vars
  /\ ([]<>(~FrictionActs) \/ []<><<Friction>>_vars)

\* v is no further from zero than u, and on the same side
NoFaster(u, v) == IF u >= 0 THEN 0 <= v /\ v <= u ELSE u <= v /\ v <= 0

\* ---- C33 ----------------------------------------------------------------
\* C33: with no thrust, a call of applyFriction on a grounded entity never
\* increases the magnitude of the x or the y momentum, and after finitely
\* many calls both are exactly zero and stay so; on an airborne entity the
\* call leaves both unchanged.
C33_FrictionStops ==
  /\ [][IF mobj.z <= mobj.floorz
          THEN NoFaster(mobj.momx, mobj'.momx) /\ NoFaster(mobj.momy, mobj'.momy)
          ELSE mobj'.momx = mobj.momx /\ mobj'.momy = mobj.momy]_vars
  /\ <>[](mobj.z <= mobj.floorz => mobj.momx = 0 /\ mobj.momy = 0)

\* a grounded entity at the greatest speeds has been brought to rest, the
\* last call snapping a momentum of at least the stop speed to zero
C33_Witness ==
  /\ physLog.step = "friction"
  /\ mobj.z <= mobj.floorz
  /\ mobj.momx = 0 /\ mobj.momy = 0
  /\ physLog.before.momx >= STOPSPEED
  /\ physLog.before.momy <= 0 - STOPSPEED

\* ------------------------------------------------------------------------
\* Doors under repeated ticks
\* ------------------------------------------------------------------------
\* the game loop calls updateDoors in every tick, for ever
SpecDoorFair == SpecDoor /\ WF_vars(UpdateDoors)

\* ---- C34 ----------------------------------------------------------------
\* C34: under repeated updateDoors ticks a door activated with kind NORMAL
\* is eventually CLOSED and out of the active set, and activateDoor on its
\* sector then succeeds again.
C34_NormalDoorCloses ==
  (0 \in DOMAIN doors /\ doors[0].type = "NORMAL")
    ~> (0 \notin DOMAIN doors /\ activateDoor(doors, sectors, 0, "NORMAL").ok)

\* ---- C35 ----------------------------------------------------------------
\* C35: a door activated with kind CLOSE is CLOSING from its activation on,
\* the ceiling of its sector is never above the height it had at
\* activation, and under repeated ticks the door is eventually CLOSED and
\* out of the active set.
C35_CloseDoorCloses ==
  /\ [](\A s \in DOMAIN doors :
          doors[s].type = "CLOSE"
            => /\ doors[s].state = "CLOSING"
               /\ sectors[s].ceilingheight <= doorLog[s].ceiling)
  /\ (0 \in DOMAIN doors /\ doors[0].type = "CLOSE") ~> (0 \notin DOMAIN doors)

\* ---- C36 ----------------------------------------------------------------
\* C36: a platform activated with kind LOWER_AND_WAIT lowers first (it is
\* DOWN when it has just been activated), and while it is active the floor
\* of its sector is never above the height it had at activation.
C36_LowerAndWaitStaysBelow ==
  \A s \in DOMAIN platforms :
    platforms[s].type = "LOWER_AND_WAIT"
      => /\ platLog[s].ticks = 0 => platforms[s].state = "DOWN"
         /\ sectors[s].floorheight <= platLog[s].floor

\* ------------------------------------------------------------------------
\* The entity's cached heights while the sectors of its level move
\* ------------------------------------------------------------------------
\* gameTick on the level of two rooms, with the door and platform managers
\* working on the sectors of mapData: movePlayer, applyGravity,
\* applyCollision and applyZMomentum first, then the line triggers, then
\* updateDoors and updatePlatforms, whose callbacks reach the renderer only.

\* tickCount++, movePlayer and applyFriction at the head of gameTick: what
\* they leave in momx and momy is an input
TickMomentum(mx, my) ==
  /\ physLog.step \in {"new", "machines"}
  /\ tickCount < MaxGameTicks
  /\ tickCount' = tickCount + 1
  /\ mobj' = [mobj EXCEPT !.momx = Units(mx), !.momy = Units(my)]
  /\ physLog' = [step |-> "momentum", before |-> mobj]
  /\ UNCHANGED << mapData, fx, tickerVars, bspVars, machVars, gpc, cmd, oldPos, steps,
                  histVars, thinkVars >>

\* doorManager.activateDoor(i, doorType) from a line trigger of this tick
TickActivateDoor(sectorIndex, type) ==
  LET r == activateDoor(doors, mapData.sectors, sectorIndex, type) IN
  /\ physLog.step = "zmomentum"
  /\ doors' = r.doors
  /\ UNCHANGED << sectors, platforms, activatedLines, player, call, doorLog, platLog,
                  gameVars, histVars, thinkVars, apartVars >>

\* platformManager.activatePlatform(i, platformType) from a line trigger
TickActivatePlatform(sectorIndex, type) ==
  LET r == activatePlatform(platforms, mapData.sectors, sectorIndex, type,
                            PlatDefaultSpeed) IN
  /\ physLog.step = "zmomentum"
  /\ platforms' = r.platforms
  /\ UNCHANGED << sectors, doors, activatedLines, player, call, doorLog, platLog,
                  gameVars, histVars, thinkVars, apartVars >>

\* doorManager.updateDoors() and platformManager.updatePlatforms(), the last
\* steps of gameTick that touch a sector
TickMachines ==
  LET d == updateDoors(doors, mapData.sectors)
      p == updatePlatforms(platforms, d.sectors) IN
  /\ physLog.step = "zmomentum"
  /\ doors' = d.doors
  /\ platforms' = p.platforms
  /\ mapData' = [mapData EXCEPT !.sectors = p.sectors]
  /\ physLog' = [step |-> "machines", before |-> mobj]
  /\ UNCHANGED << mobj, sectors, activatedLines, player, call, doorLog, platLog,
                  fx, tickerVars, bspVars, gameVars, histVars, thinkVars >>

InitSectorTick ==
  /\ FixedIdle
  /\ fx = NoCalc
  /\ TickerIdle
  /\ BspIdle
  /\ \E floorB \in {0, Units(MAX_STEP_HEIGHT)} :
       mapData = TwoRooms(ML_TWOSIDED, floorB, Units(128))
  /\ mobj = [createPlayerMobj(Units(32), Units(32), mapData.sectors[0].floorheight)
               EXCEPT !.ceilingz = mapData.sectors[0].ceilingheight]
  /\ physLog = [step |-> "new", before |-> NoMobj]

NextSectorTick ==
  \/ \E mx \in MomentumUnits, my \in MomentumUnits : TickMomentum(mx, my)
  \/ Gravity({"momentum"})
  \/ Collision
  \/ ZMomentum({"collision"})
  \/ \E s \in DOMAIN mapData.sectors, t \in {"NORMAL", "CLOSE"} : TickActivateDoor(s, t)
  \/ \E s \in DOMAIN mapData.sectors, t \in {"RAISE_AND_WAIT", "LOWER_AND_WAIT"} :
       TickActivatePlatform(s, t)
  \/ TickMachines

SpecSectorTick == InitSectorTick /\ [][NextSectorTick]_vars

\* the sector that contains the entity
SectorOfMobj ==
  findSectorAtPoint(Whole(FixedToFloat(mobj.x)), Whole(FixedToFloat(mobj.y)), mapData)

\* C37: at the end of every tick the entity's cached floor and ceiling
\* heights are the current floor and ceiling heights of the sector that
\* contains it, also on a tick in which a door or a platform moved that
\* sector while the entity stood still.
C37_CacheMatchesSector ==
  (physLog.step = "machines" /\ SectorOfMobj >= 0)
    => /\ mobj.floorz = FloatToFixed(mapData.sectors[SectorOfMobj].floorheight)
       /\ mobj.ceilingz = FloatToFixed(mapData.sectors[SectorOfMobj].ceilingheight)

\* ------------------------------------------------------------------------
\* Removed thinkers and the pass in progress
\* ------------------------------------------------------------------------
\* C38: a thinker that has been removed is never called afterwards, also
\* not later in the runThinkers pass in which the behaviour of another
\* thinker removed it: every thinker a pass calls is registered at the
\* moment it is called.
C38_RemovedNeverInvoked ==
  [][ (run.active /\ run'.visited # run.visited) => run.current \in live ]_vars

\* ------------------------------------------------------------------------
\* The frame callbacks of a ticker that is stopped and started again
\* ------------------------------------------------------------------------
\* the invocations of tick() that are requested or running
PendingTicks == ticker.scheduled + (IF ticker.inFrame THEN 1 ELSE 0)

\* C39: whatever start() and stop() calls and frame callbacks have happened,
\* at most one chain of frame callbacks is live: while the ticker runs, at
\* most one invocation of tick() is requested or running.
C39_OneFrameChain ==
  ticker.running => PendingTicks <= 1

\* ------------------------------------------------------------------------
\* The count and the tail of the thinker list
\* ------------------------------------------------------------------------
\* the last thinker reached from the head, undefined (0) on an empty list
LastReachable(m) ==
  LET all == getAllThinkers(m)
  IN  IF all = << >> THEN 0 ELSE all[Len(all)]

\* C40: after any addThinker, removeThinker and clear calls, a handle
\* removed twice included, getCount() is the number of thinkers reached from
\* the head of the list and the tail is the last thinker reached from it.
C40_CountAndTailMatchList ==
  /\ getCount(tm) = Len(getAllThinkers(tm))
  /\ tm.tail = LastReachable(tm)

====
